---- MODULE Spec2Model ----
(***************************************************************************)
(* Hybrid search engine of Code Historian: SearchEngine (services/search), *)
(* RerankerService (services/reranker), EmbeddingService.embed             *)
(* (services/embedding), VectorStore.search, MetadataDatabase.searchChanges*)
(* and parseTimeExpression (utils).                                        *)
(*                                                                         *)
(* JavaScript numbers are modelled as exact rationals [n, d] in lowest     *)
(* terms with d > 0; NoScore (d = 0) stands for `undefined`.  Time is      *)
(* counted in hours: every duration of parseTimeExpression is a whole      *)
(* number of hours.                                                        *)
(***************************************************************************)
EXTENDS Integers, Sequences, FiniteSets, TLC

----------------------------------------------------------------------------
(* Rational arithmetic (JS number arithmetic of search.ts / reranker.ts).  *)

Abs(x) == IF x < 0 THEN -x ELSE x

RECURSIVE GCD(_, _)
GCD(a, b) == IF b = 0 THEN a ELSE GCD(b, a % b)

Rat(n, d) ==
  LET s == IF d < 0 THEN -1 ELSE 1
      g == GCD(Abs(n), Abs(d))
  IN  [n |-> (s * n) \div g, d |-> (s * d) \div g]

Zero == [n |-> 0, d |-> 1]
One == [n |-> 1, d |-> 1]
NoScore == [n |-> 0, d |-> 0]

IsDefined(x) == x.d # 0

RAdd(a, b) ==
  LET g == GCD(a.d, b.d)
      l == (a.d \div g) * b.d
  IN  Rat(a.n * (l \div a.d) + b.n * (l \div b.d), l)

RNeg(a) == [n |-> -a.n, d |-> a.d]

RSub(a, b) == RAdd(a, RNeg(b))

RMul(a, b) ==
  LET g1 == GCD(Abs(a.n), b.d)
      g2 == GCD(Abs(b.n), a.d)
      h1 == IF g1 = 0 THEN 1 ELSE g1
      h2 == IF g2 = 0 THEN 1 ELSE g2
  IN  Rat((a.n \div h1) * (b.n \div h2), (a.d \div h2) * (b.d \div h1))

RDiv(a, b) == RMul(a, Rat(b.d, b.n))

(* a < b, by comparing the continued-fraction expansions: no product is    *)
(* formed, so the comparison stays inside TLC's integers.                  *)
RECURSIVE RLess(_, _)
RLess(a, b) ==
  LET qa == a.n \div a.d
      qb == b.n \div b.d
      ra == a.n % a.d
      rb == b.n % b.d
  IN  IF qa # qb THEN qa < qb
      ELSE IF rb = 0 THEN FALSE
      ELSE IF ra = 0 THEN TRUE
      ELSE RLess([n |-> b.d, d |-> rb], [n |-> a.d, d |-> ra])

RLeq(a, b) == ~RLess(b, a)

RMin(a, b) == IF RLess(b, a) THEN b ELSE a

RECURSIVE SeqMin(_)
SeqMin(s) ==
  IF Len(s) = 1 THEN s[1] ELSE RMin(s[1], SeqMin(Tail(s)))

RMax(a, b) == IF RLess(a, b) THEN b ELSE a

RECURSIVE SeqMax(_)
SeqMax(s) ==
  IF Len(s) = 1 THEN s[1] ELSE RMax(s[1], SeqMax(Tail(s)))

(* Array.prototype.sort with comparator (a, b) => key(b) - key(a): a       *)
(* stable sort into non-increasing key order.  s is a sequence of records  *)
(* [v, k]; the result is the sorted sequence of such records.              *)
RECURSIVE InsertDesc(_, _)
InsertDesc(sorted, x) ==
  IF sorted = <<>> THEN <<x>>
  ELSE LET last == sorted[Len(sorted)]
       IN  IF RLess(last.k, x.k)
           THEN Append(InsertDesc(SubSeq(sorted, 1, Len(sorted) - 1), x), last)
           ELSE Append(sorted, x)

RECURSIVE SortDesc(_)
SortDesc(s) ==
  IF s = <<>> THEN <<>>
  ELSE InsertDesc(SortDesc(SubSeq(s, 1, Len(s) - 1)), s[Len(s)])

Slice(s, n) == SubSeq(s, 1, IF Len(s) < n THEN Len(s) ELSE n)

----------------------------------------------------------------------------
(* Program constants (constants.ts).                                       *)

RRF_K == 60
VECTOR_WEIGHT == Rat(6, 10)
KEYWORD_WEIGHT == Rat(4, 10)
MIN_VECTOR_SCORE == Rat(3, 10)
MIN_KEYWORD_SCORE == Rat(1, 10)
RERANK_TOP_K == 50
MAX_RESULTS == 20
RERANKER_TOP_K == 10
OverlapFactor == Rat(2, 10)

----------------------------------------------------------------------------
(* SearchEngine.normalizeScores: min-max scaling, then the threshold.      *)

ScoresOf(results) == [i \in 1..Len(results) |-> results[i].score]

RECURSIVE FilterThreshold(_, _)
FilterThreshold(s, minThreshold) ==
  IF s = <<>> THEN <<>>
  ELSE IF RLeq(minThreshold, s[1].normalizedScore)
       THEN <<s[1]>> \o FilterThreshold(Tail(s), minThreshold)
       ELSE FilterThreshold(Tail(s), minThreshold)

(* Mutant: the minimum is not subtracted before scaling.                   *)
NormalizeEntry_NoShift(r, min, range) ==
  [id |-> r.id, score |-> r.score,
   normalizedScore |-> IF RLess(Zero, range) THEN RDiv(r.score, range) ELSE One]

NormalizeEntry(r, min, range) ==
  [id |-> r.id, score |-> r.score,
   normalizedScore |-> IF RLess(Zero, range)
                       THEN RDiv(RSub(r.score, min), range)
                       ELSE One]

normalizeScores(results, minThreshold) ==
  IF Len(results) = 0 THEN [results |-> <<>>, min |-> Zero, max |-> Zero]
  ELSE LET scores == ScoresOf(results)
           min == SeqMin(scores)
           max == SeqMax(scores)
           range == RSub(max, min)
           normalized == [i \in 1..Len(results) |->
                            NormalizeEntry(results[i], min, range)]
       IN  [results |-> FilterThreshold(normalized, minThreshold),
            min |-> min, max |-> max]

----------------------------------------------------------------------------
(* SearchEngine.reciprocalRankFusion.                                      *)
(* A vector result is [changeId, score]; a keyword result is               *)
(* [changeId, rank].  scoreMap (a JS Map) is a sequence of RankedResult    *)
(* records in insertion order; rank 0 stands for an absent rank.           *)

(* new Map(normalized.results.map(r => [r.id, r.normalizedScore])).get(id) *)
(* ?? 0: the last entry with that id wins.                                 *)
RECURSIVE NormLookup(_, _)
NormLookup(results, id) ==
  IF results = <<>> THEN Zero
  ELSE LET last == results[Len(results)]
       IN  IF last.id = id THEN last.normalizedScore
           ELSE NormLookup(SubSeq(results, 1, Len(results) - 1), id)

MapIndex(m, id) ==
  IF \E i \in 1..Len(m) : m[i].changeId = id
  THEN CHOOSE i \in 1..Len(m) : m[i].changeId = id
  ELSE 0

RrfContribution(weight, rank) == RMul(weight, Rat(1, RRF_K + rank))

VectorEntry(result, rank, params, normalizedVector) ==
  [changeId |-> result.changeId,
   vectorRank |-> rank,
   keywordRank |-> 0,
   vectorScore |-> result.score,
   keywordScore |-> NoScore,
   normalizedVectorScore |-> NormLookup(normalizedVector.results, result.changeId),
   normalizedKeywordScore |-> NoScore,
   rrfScore |-> RrfContribution(params.vectorWeight, rank),
   rerankerScore |-> NoScore]

(* scoreMap.set(changeId, entry): an existing key keeps its position.      *)
MapSet(m, entry) ==
  LET i == MapIndex(m, entry.changeId)
  IN  IF i = 0 THEN Append(m, entry) ELSE [m EXCEPT ![i] = entry]

RECURSIVE ProcessVector(_, _, _, _)
ProcessVector(vectorResults, n, params, normalizedVector) ==
  IF n = 0 THEN <<>>
  ELSE MapSet(ProcessVector(vectorResults, n - 1, params, normalizedVector),
              VectorEntry(vectorResults[n], n, params, normalizedVector))

(* Mutant: a candidate already in the map has its score replaced.          *)
KeywordMerge_Overwrite(m, result, rank, params, normalizedKeyword) ==
  LET i == MapIndex(m, result.changeId)
      contribution == RrfContribution(params.keywordWeight, rank)
      entry == [changeId |-> result.changeId, vectorRank |-> 0, keywordRank |-> rank,
                vectorScore |-> NoScore, keywordScore |-> Rat(Abs(result.rank), 1),
                normalizedVectorScore |-> NoScore,
                normalizedKeywordScore |-> NormLookup(normalizedKeyword.results, result.changeId),
                rrfScore |-> contribution, rerankerScore |-> NoScore]
  IN  IF i # 0
      THEN [m EXCEPT ![i] = [entry EXCEPT !.vectorRank = m[i].vectorRank,
                                          !.vectorScore = m[i].vectorScore,
                                          !.normalizedVectorScore = m[i].normalizedVectorScore]]
      ELSE Append(m, entry)

KeywordMerge(m, result, rank, params, normalizedKeyword) ==
  LET i == MapIndex(m, result.changeId)
      contribution == RrfContribution(params.keywordWeight, rank)
      normalizedScore == NormLookup(normalizedKeyword.results, result.changeId)
      keywordScore == Rat(Abs(result.rank), 1)
  IN  IF i # 0
      THEN [m EXCEPT ![i] = [@ EXCEPT !.keywordRank = rank,
                                      !.keywordScore = keywordScore,
                                      !.normalizedKeywordScore = normalizedScore,
                                      !.rrfScore = RAdd(@, contribution)]]
      ELSE Append(m, [changeId |-> result.changeId,
                      vectorRank |-> 0,
                      keywordRank |-> rank,
                      vectorScore |-> NoScore,
                      keywordScore |-> keywordScore,
                      normalizedVectorScore |-> NoScore,
                      normalizedKeywordScore |-> normalizedScore,
                      rrfScore |-> contribution,
                      rerankerScore |-> NoScore])

RECURSIVE ProcessKeyword(_, _, _, _, _)
ProcessKeyword(m, keywordResults, n, params, normalizedKeyword) ==
  IF n = 0 THEN m
  ELSE KeywordMerge(ProcessKeyword(m, keywordResults, n - 1, params, normalizedKeyword),
                    keywordResults[n], n, params, normalizedKeyword)

OrZero(x) == IF IsDefined(x) THEN x ELSE Zero

(* Mutant: the two normalized scores are added, not multiplied and capped. *)
OverlapBoost_Sum(result) ==
  IF result.vectorRank # 0 /\ result.keywordRank # 0
  THEN RAdd(One, RMul(OverlapFactor, RAdd(OrZero(result.normalizedVectorScore),
                                          OrZero(result.normalizedKeywordScore))))
  ELSE One

(* 1 + 0.2 * Math.min(1, normV * normK) for a candidate of both legs; a    *)
(* candidate of one leg is not multiplied.                                 *)
OverlapBoost(result) ==
  IF result.vectorRank # 0 /\ result.keywordRank # 0
  THEN RAdd(One, RMul(OverlapFactor,
                      RMin(One, RMul(OrZero(result.normalizedVectorScore),
                                     OrZero(result.normalizedKeywordScore)))))
  ELSE One

ApplyBoost(m) ==
  [i \in 1..Len(m) |-> [m[i] EXCEPT !.rrfScore = RMul(@, OverlapBoost(m[i]))]]

(* Mutant: candidates of equal score come out in reverse insertion order.  *)
SortByRrf_TiesReversed(m) ==
  LET keyed == [i \in 1..Len(m) |->
                  [v |-> m[Len(m) + 1 - i], k |-> m[Len(m) + 1 - i].rrfScore]]
      sorted == SortDesc(keyed)
  IN  [i \in 1..Len(m) |-> sorted[i].v]

SortByRrf(m) ==
  LET keyed == [i \in 1..Len(m) |-> [v |-> m[i], k |-> m[i].rrfScore]]
      sorted == SortDesc(keyed)
  IN  [i \in 1..Len(m) |-> sorted[i].v]

ScoreMap(vectorResults, keywordResults, params, normalizedVector, normalizedKeyword) ==
  ProcessKeyword(ProcessVector(vectorResults, Len(vectorResults), params, normalizedVector),
                 keywordResults, Len(keywordResults), params, normalizedKeyword)

reciprocalRankFusion(vectorResults, keywordResults, params, normalizedVector, normalizedKeyword) ==
  SortByRrf(ApplyBoost(ScoreMap(vectorResults, keywordResults, params,
                                normalizedVector, normalizedKeyword)))

(* search.ts lines 127-134: the inputs search hands to normalizeScores.    *)
VectorScoreInput(vectorResults) ==
  [i \in 1..Len(vectorResults) |->
     [id |-> vectorResults[i].changeId, score |-> vectorResults[i].score]]

KeywordScoreInput(keywordResults) ==
  [i \in 1..Len(keywordResults) |->
     [id |-> keywordResults[i].changeId, score |-> Rat(keywordResults[i].rank, 1)]]

----------------------------------------------------------------------------
(* Strings are sequences of one-character strings.                         *)

Digits == {"0", "1", "2", "3", "4", "5", "6", "7", "8", "9"}
Whitespace == {" "}

DigitVal(c) ==
  CASE c = "0" -> 0 [] c = "1" -> 1 [] c = "2" -> 2 [] c = "3" -> 3
    [] c = "4" -> 4 [] c = "5" -> 5 [] c = "6" -> 6 [] c = "7" -> 7
    [] c = "8" -> 8 [] c = "9" -> 9

(* s has the literal lit at position i.                                    *)
HasAt(s, i, lit) ==
  /\ i >= 1
  /\ i + Len(lit) - 1 <= Len(s)
  /\ \A j \in 1..Len(lit) : s[i + j - 1] = lit[j]

(* String.prototype.includes / SQL LIKE '%lit%'.                           *)
Includes(s, lit) == \E i \in 1..(Len(s) + 1) : HasAt(s, i, lit)

(* The position after a maximal run of characters of set cs from i.        *)
RECURSIVE SkipRun(_, _, _)
SkipRun(s, i, cs) ==
  IF i <= Len(s) /\ s[i] \in cs THEN SkipRun(s, i + 1, cs) ELSE i

(* /a\s*b/ matches at position i.                                          *)
TwoWordsAt(s, i, a, b) ==
  HasAt(s, i, a) /\ HasAt(s, SkipRun(s, i + Len(a), Whitespace), b)

TwoWords(s, a, b) == \E i \in 1..Len(s) : TwoWordsAt(s, i, a, b)

RECURSIVE ParseInt(_)
ParseInt(ds) ==
  IF ds = <<>> THEN 0
  ELSE 10 * ParseInt(SubSeq(ds, 1, Len(ds) - 1)) + DigitVal(ds[Len(ds)])

(* /(\d+)\s*units?\s*ago/ matches with the digit run starting at i.        *)
AgoAt(s, i, unit) ==
  /\ i <= Len(s) /\ s[i] \in Digits
  /\ LET j == SkipRun(s, i, Digits)
         u == SkipRun(s, j, Whitespace)
         e == u + Len(unit)
         f == IF e <= Len(s) /\ s[e] = "s" THEN e + 1 ELSE e
     IN  /\ HasAt(s, u, unit)
         /\ HasAt(s, SkipRun(s, f, Whitespace), <<"a", "g", "o">>)

AgoMatches(s, unit) == { i \in 1..Len(s) : AgoAt(s, i, unit) }

Least(S) == CHOOSE x \in S : \A y \in S : x <= y

(* match[1] of the leftmost match.                                         *)
AgoCount(s, unit) ==
  LET i == Least(AgoMatches(s, unit))
  IN  ParseInt(SubSeq(s, i, SkipRun(s, i, Digits) - 1))

----------------------------------------------------------------------------
(* parseTimeExpression (utils): the first pattern, in the order of the     *)
(* patterns array, that matches.  Durations in hours.                      *)

Hour == 1
Day == 24 * Hour
Week == 7 * Day
Month == 30 * Day

NoRange == [start |-> 0, end |-> -1]

W_today == <<"t", "o", "d", "a", "y">>
W_yesterday == <<"y", "e", "s", "t", "e", "r", "d", "a", "y">>
W_this == <<"t", "h", "i", "s">>
W_last == <<"l", "a", "s", "t">>
W_week == <<"w", "e", "e", "k">>
W_month == <<"m", "o", "n", "t", "h">>
W_hour == <<"h", "o", "u", "r">>
W_day == <<"d", "a", "y">>

parseTimeExpression(expr, clock) ==
  IF Includes(expr, W_today) THEN [start |-> clock - Day, end |-> clock]
  ELSE IF Includes(expr, W_yesterday)
    THEN [start |-> clock - 2 * Day, end |-> clock - Day]
  ELSE IF TwoWords(expr, W_this, W_week) THEN [start |-> clock - Week, end |-> clock]
  ELSE IF TwoWords(expr, W_last, W_week)
    THEN [start |-> clock - 2 * Week, end |-> clock - Week]
  ELSE IF TwoWords(expr, W_this, W_month) THEN [start |-> clock - Month, end |-> clock]
  ELSE IF TwoWords(expr, W_last, W_month)
    THEN [start |-> clock - 2 * Month, end |-> clock - Month]
  ELSE IF AgoMatches(expr, W_hour) # {}
    THEN [start |-> clock - AgoCount(expr, W_hour) * Hour, end |-> clock]
  ELSE IF AgoMatches(expr, W_day) # {}
    THEN [start |-> clock - AgoCount(expr, W_day) * Day, end |-> clock]
  ELSE IF AgoMatches(expr, W_week) # {}
    THEN [start |-> clock - AgoCount(expr, W_week) * Week, end |-> clock]
  ELSE NoRange

HasRange(r) == r # NoRange

(* SearchEngine.enrichFilters, the timeRange facet: an explicit range is   *)
(* kept, otherwise the parsed one (if any) is taken.                       *)
(* Mutant: the parsed range replaces the explicit one.                     *)
enrichTimeRange_ParsedWins(query, filters, clock) ==
  LET timeRange == parseTimeExpression(query, clock)
  IN  IF HasRange(timeRange) THEN timeRange ELSE filters.timeRange

enrichTimeRange(query, filters, clock) ==
  LET timeRange == parseTimeExpression(query, clock)
  IN  IF HasRange(timeRange) /\ ~HasRange(filters.timeRange)
      THEN timeRange
      ELSE filters.timeRange

----------------------------------------------------------------------------
(* SearchEngine.prepareFTSQuery.                                           *)

FtsSpecial == {"'", "\"", "*", "(", ")", "^", "-"}

ReplaceSpecial(s) ==
  [i \in 1..Len(s) |-> IF s[i] \in FtsSpecial THEN " " ELSE s[i]]

(* split(/\s+/) of a trimmed string; the empty string gives one empty term *)
RECURSIVE SplitWs(_, _, _)
SplitWs(s, i, cur) ==
  IF i > Len(s) THEN <<cur>>
  ELSE IF s[i] \in Whitespace
       THEN <<cur>> \o SplitWs(s, SkipRun(s, i, Whitespace), <<>>)
       ELSE SplitWs(s, i + 1, Append(cur, s[i]))

Trim(s) ==
  LET a == SkipRun(s, 1, Whitespace)
      ends == { j \in 0..Len(s) : j = 0 \/ s[j] \notin Whitespace }
      b == CHOOSE j \in ends : \A k \in ends : k <= j
  IN  IF a > b THEN <<>> ELSE SubSeq(s, a, b)

RECURSIVE JoinTerms(_)
JoinTerms(terms) ==
  IF terms = <<>> THEN <<>>
  ELSE LET quoted == <<"\"">> \o terms[1] \o <<"\"", "*">>
       IN  IF Len(terms) = 1 THEN quoted
           ELSE quoted \o <<" ", "O", "R", " ">> \o JoinTerms(Tail(terms))

FtsTerms(query) ==
  SelectSeq(SplitWs(Trim(ReplaceSpecial(query)), 1, <<>>), LAMBDA term : Len(term) > 1)

prepareFTSQuery(query) ==
  LET cleaned == JoinTerms(FtsTerms(query))
  IN  IF cleaned # <<>> THEN cleaned ELSE query

----------------------------------------------------------------------------
(* The data set: the rows of the metadata store and of the vector index.   *)
(* It never changes.  Record d has a vector but no metadata row; record c  *)
(* has a metadata row but no vector.                                       *)

T_x == <<"x">>
T_today == W_today
T_fix == <<"f", "i", "x">>
T_box == <<"b", "o", "x">>
T_quoted == <<"\"", "t", "o", "d", "a", "y", "\"", "*">>

Now0 == 1000

Changes ==
  << [id |-> "a", timestamp |-> Now0 - 10, text |-> T_fix],
     [id |-> "b", timestamp |-> Now0 - 30, text |-> T_box],
     [id |-> "c", timestamp |-> Now0 - 60, text |-> T_quoted] >>

VectorRows ==
  << [changeId |-> "a", timestamp |-> Now0 - 10, near |-> 1, far |-> 5],
     [changeId |-> "b", timestamp |-> Now0 - 30, near |-> 5, far |-> 1],
     [changeId |-> "d", timestamp |-> Now0 - 5, near |-> 7, far |-> 12] >>

(* The distance of a row from the embedding of a query text, in tenths.    *)
Distance(queryVector, row) ==
  IF Includes(queryVector, T_x) THEN Rat(row.near, 10) ELSE Rat(row.far, 10)

(* The relevance the reranker backend gives a (query, document) pair.      *)
BackendScore(id) ==
  CASE id = "a" -> Rat(1, 10)
    [] id = "b" -> Rat(9, 10)
    [] OTHER -> Rat(1, 2)

----------------------------------------------------------------------------
(* Storage collaborators.                                                  *)

InRange(ts, r) == r.start <= ts /\ ts <= r.end

(* VectorStore.search: nearest rows first, the where clause of the time    *)
(* range, limit topK; score = 1 - distance.                                *)
VectorStoreSearch(queryVector, topK, filters) ==
  LET kept == SelectSeq(VectorRows,
                LAMBDA row : HasRange(filters.timeRange) => InRange(row.timestamp, filters.timeRange))
      keyed == [i \in 1..Len(kept) |->
                  [v |-> kept[i], k |-> RNeg(Distance(queryVector, kept[i]))]]
      sorted == Slice(SortDesc(keyed), topK)
  IN  [i \in 1..Len(sorted) |->
         [changeId |-> sorted[i].v.changeId,
          score |-> RSub(One, Distance(queryVector, sorted[i].v))]]

(* MetadataDatabase.searchChanges: LIKE '%query%', ORDER BY timestamp DESC,*)
(* LIMIT; rank = index + 1.  No filter is passed to it.                    *)
searchChanges(query, limit) ==
  LET kept == SelectSeq(Changes, LAMBDA row : Includes(row.text, query))
      keyed == [i \in 1..Len(kept) |-> [v |-> kept[i], k |-> Rat(kept[i].timestamp, 1)]]
      sorted == Slice(SortDesc(keyed), limit)
  IN  [i \in 1..Len(sorted) |-> [changeId |-> sorted[i].v.id, rank |-> i]]

(* MetadataDatabase.getChange(id) # null.                                  *)
HasChange(id) == \E i \in 1..Len(Changes) : Changes[i].id = id

ChangeTimestamp(id) ==
  IF HasChange(id)
  THEN (CHOOSE r \in { Changes[i] : i \in 1..Len(Changes) } : r.id = id).timestamp
  ELSE (CHOOSE r \in { VectorRows[i] : i \in 1..Len(VectorRows) } : r.changeId = id).timestamp

----------------------------------------------------------------------------
(* RerankerService.                                                        *)

(* Mutant: the credential is not looked at.                                *)
isEnabled_NoKey(r) == r.enabled

(* isEnabled(): this.enabled && !!this.config.apiKey                       *)
isEnabled(r) == r.enabled /\ r.apiKey # ""

(* extractScoreFromResult: a payload is [kind, score, items]; a null       *)
(* result is NoScore.                                                      *)
IsPositiveLabel(item) ==
  item.label = "LABEL_1" \/ item.label = "entailment" \/ item.label = "1"

PositiveIdx(items) == { i \in 1..Len(items) : IsPositiveLabel(items[i]) }

extractScoreFromResult(result) ==
  IF result.kind = "number" THEN result.score
  ELSE IF result.kind = "array"
    THEN IF Len(result.items) = 0 THEN NoScore
         ELSE LET first == result.items[1]
              IN  IF first.kind = "number" THEN first.score
                  ELSE IF first.kind = "array"
                    THEN IF PositiveIdx(first.items) # {}
                              /\ IsDefined(first.items[Least(PositiveIdx(first.items))].score)
                         THEN first.items[Least(PositiveIdx(first.items))].score
                         ELSE IF Len(first.items) > 0 /\ IsDefined(first.items[1].score)
                         THEN first.items[1].score
                         ELSE NoScore
                  ELSE IF first.kind = "object" /\ IsDefined(first.score)
                    THEN first.score
                  ELSE NoScore
  ELSE IF result.kind = "object" /\ IsDefined(result.score) THEN result.score
  ELSE NoScore

(* The response bodies the backend can send for a document whose relevance *)
(* is s, by name.                                                          *)
Item(label, score) == [kind |-> "object", label |-> label, score |-> score, items |-> <<>>]

Payload(name, s) ==
  CASE name = "number" -> [kind |-> "number", score |-> s, items |-> <<>>]
    [] name = "labels" ->
         [kind |-> "array", score |-> NoScore,
          items |-> << [kind |-> "array", score |-> NoScore, label |-> "",
                        items |-> << Item("LABEL_0", RSub(One, s)), Item("LABEL_1", s) >>] >>]
    [] name = "flat" ->
         [kind |-> "array", score |-> NoScore, items |-> << Item("relevant", s) >>]
    [] name = "object" -> [kind |-> "object", score |-> s, items |-> <<>>]
    [] name = "empty_array" -> [kind |-> "array", score |-> NoScore, items |-> <<>>]
    [] name = "labels_noscore" ->
         [kind |-> "array", score |-> NoScore,
          items |-> << [kind |-> "array", score |-> NoScore, label |-> "",
                        items |-> << Item("LABEL_1", NoScore) >>] >>]
    [] OTHER -> [kind |-> "other", score |-> NoScore, items |-> <<>>]

Parseable == {"number", "labels", "flat", "object"}
Unparseable == {"empty_array", "labels_noscore", "garbage", "badjson"}
Bodies == Parseable \cup Unparseable

(* score ?? doc.originalScore ?? 0, after response.json(); a body that is  *)
(* no JSON makes json() throw, which the per-document catch turns into the *)
(* original score.                                                         *)
OrElse(x, y) == IF IsDefined(x) THEN x ELSE y

(* Mutant: a null score becomes 0, not the original score.                 *)
DocScore_ZeroOnNull(doc, body) ==
  IF body = "badjson" THEN OrElse(doc.originalScore, Zero)
  ELSE OrElse(extractScoreFromResult(Payload(body, BackendScore(doc.id))), Zero)

DocScore(doc, body) ==
  IF body = "badjson" THEN OrElse(doc.originalScore, Zero)
  ELSE OrElse(extractScoreFromResult(Payload(body, BackendScore(doc.id))),
              OrElse(doc.originalScore, Zero))

FallbackScore(doc) == OrElse(doc.originalScore, Zero)

SortByScore(results) ==
  LET keyed == [i \in 1..Len(results) |-> [v |-> results[i], k |-> results[i].score]]
      sorted == SortDesc(keyed)
  IN  [i \in 1..Len(results) |-> sorted[i].v]

(* passthroughRerank                                                       *)
passthroughRerank(documents, topK) ==
  Slice(SortByScore([i \in 1..Len(documents) |->
                       [id |-> documents[i].id,
                        score |-> FallbackScore(documents[i]),
                        originalScore |-> documents[i].originalScore]]), topK)

(* rerank's early return: not enabled, or no documents.                    *)
UnrankedCopy(documents) ==
  [i \in 1..Len(documents) |->
     [id |-> documents[i].id,
      score |-> FallbackScore(documents[i]),
      originalScore |-> documents[i].originalScore]]

(* rerankWithHuggingFace after its loop: pair, sort, slice.                *)
HuggingFaceResult(documents, scores, topK) ==
  Slice(SortByScore([i \in 1..Len(documents) |->
                       [id |-> documents[i].id,
                        score |-> IF i <= Len(scores) THEN scores[i] ELSE Zero,
                        originalScore |-> documents[i].originalScore]]), topK)

(* rerankWithCohere on an OK response: the backend returns its top_n       *)
(* results, most relevant first, each naming a document by index.          *)
CohereResult(documents, topK) ==
  Slice(SortByScore([i \in 1..Len(documents) |->
                       [id |-> documents[i].id,
                        score |-> BackendScore(documents[i].id),
                        originalScore |-> documents[i].originalScore]]), topK)

----------------------------------------------------------------------------
(* State.                                                                  *)

VARIABLES
  now,    \* Date.now(), in hours
  rr,     \* SearchEngine.useReranker and the RerankerService's fields
  emb,    \* EmbeddingService: provider set or null, embeddingCache keys
  srch,   \* the search call in flight, or the last one that settled
  hist,   \* an earlier settled search, kept for comparison
  fz,     \* the arguments and results of a direct fusion run
  sched   \* 0 when no call is in flight, else 1 or 2: changes at each step
          \* of the local store or of a timer

vars == <<now, rr, emb, srch, hist, fz, sched>>

MaxTicks == 1
MAX_RETRIES == 3
CACHE_CAP == 1000

Queries == {T_x, T_today}

NoFilters == [timeRange |-> NoRange]
ExplicitRange == [timeRange |-> [start |-> Now0 - 40, end |-> Now0 - 20]]
FilterChoices == {NoFilters, ExplicitRange}

DefaultParams ==
  [vectorWeight |-> VECTOR_WEIGHT, keywordWeight |-> KEYWORD_WEIGHT,
   rerankTopK |-> RERANK_TOP_K]
ParamChoices == {DefaultParams}

IdleFrame ==
  [pc |-> "idle", query |-> <<>>, filters |-> NoFilters, params |-> DefaultParams,
   enriched |-> NoFilters, attempt |-> 0,
   vecRes |-> <<>>, kwRes |-> <<>>, vecThrew |-> FALSE, kwThrew |-> FALSE,
   legRejected |-> FALSE,
   ranked |-> <<>>, reranker |-> "off", reranking |-> FALSE, docs |-> <<>>,
   stage |-> "none", scores |-> <<>>, failed |-> {}, contacted |-> FALSE,
   wholeFailed |-> FALSE, reranked |-> <<>>,
   finalRanked |-> <<>>, hydrateThrew |-> FALSE,
   results |-> <<>>, outcome |-> "none", emitted |-> 0,
   payload |-> <<>>, notified |-> <<>>]

NoFusion ==
  [stage |-> "none", vectorResults |-> <<>>, keywordResults |-> <<>>,
   params |-> DefaultParams,
   normalizedVector |-> [results |-> <<>>, min |-> Zero, max |-> Zero],
   normalizedKeyword |-> [results |-> <<>>, min |-> Zero, max |-> Zero],
   ranked |-> <<>>]

NoHist == [set |-> FALSE]

(* new RerankerService(): enabled = true, no apiKey, provider huggingface; *)
(* SearchEngine.useReranker = false.                                       *)
RerankerInit ==
  [useReranker |-> FALSE, enabled |-> TRUE, apiKey |-> "",
   provider |-> "huggingface", lastSet |-> "never"]

Init ==
  /\ sched = 0
  /\ now = Now0
  /\ rr = RerankerInit
  /\ emb \in { [configured |-> c, cache |-> <<>>] : c \in BOOLEAN }
  /\ srch = IdleFrame
  /\ hist = NoHist
  /\ fz = NoFusion

----------------------------------------------------------------------------
(* SearchEngine.hydrateResults and the end of search.                      *)

(* getChange for each of the first `limit` candidates; a candidate with no *)
(* metadata row is skipped.                                                *)
hydrateResults(rankedResults, limit) ==
  LET head == SelectSeq(Slice(rankedResults, limit), LAMBDA r : HasChange(r.changeId))
  IN  [i \in 1..Len(head) |->
         [changeId |-> head[i].changeId, score |-> head[i].rrfScore,
          vectorScore |-> head[i].vectorScore, keywordScore |-> head[i].keywordScore]]

(* Mutant: the throw is swallowed and an empty list is returned.           *)
Complete_Swallow(f, finalRanked, storeThrows) ==
  IF storeThrows /\ Len(finalRanked) > 0
  THEN [f EXCEPT !.pc = "done", !.finalRanked = finalRanked, !.hydrateThrew = TRUE,
                 !.results = <<>>, !.outcome = "resolved", !.emitted = 1]
  ELSE [f EXCEPT !.pc = "done", !.finalRanked = finalRanked,
                 !.results = hydrateResults(finalRanked, MAX_RESULTS),
                 !.outcome = "resolved", !.emitted = 1]

(* The callbacks registered for SEARCH_COMPLETED, in the order of their    *)
(* registration; the second one throws.                                    *)
Listeners == <<"ui", "faulty", "log">>
ListenerThrows(l) == l = "faulty"

(* Mutant: no try/catch around the callback; the first throw ends the loop *)
(* and leaves emit.                                                        *)
RECURSIVE emit_NoCatch(_)
emit_NoCatch(listeners) ==
  IF listeners = <<>> THEN [notified |-> <<>>, threw |-> FALSE]
  ELSE IF ListenerThrows(Head(listeners)) THEN [notified |-> <<Head(listeners)>>, threw |-> TRUE]
  ELSE LET rest == emit_NoCatch(Tail(listeners))
       IN  [notified |-> <<Head(listeners)>> \o rest.notified, threw |-> rest.threw]

(* EventEmitter.emit: every callback is called, a throw is caught and      *)
(* logged.  notified: the callbacks called; threw: an exception left emit. *)
RECURSIVE emit(_)
emit(listeners) ==
  IF listeners = <<>> THEN [notified |-> <<>>, threw |-> FALSE]
  ELSE LET rest == emit(Tail(listeners))
       IN  [notified |-> <<Head(listeners)>> \o rest.notified, threw |-> rest.threw]

(* search.ts lines 151-167: hydrate, emit SEARCH_COMPLETED, return; a      *)
(* throw of the metadata store, or one that leaves emit, is logged and     *)
(* rethrown.  getChange is only called when there is a candidate.          *)
Complete(f, finalRanked, storeThrows) ==
  IF storeThrows /\ Len(finalRanked) > 0
  THEN [f EXCEPT !.pc = "done", !.finalRanked = finalRanked, !.hydrateThrew = TRUE,
                 !.results = <<>>, !.outcome = "rejected", !.emitted = 0]
  ELSE LET results == hydrateResults(finalRanked, MAX_RESULTS)
           e == emit(Listeners)
           g == [f EXCEPT !.pc = "done", !.finalRanked = finalRanked, !.emitted = 1,
                          !.payload = results, !.notified = e.notified]
       IN  IF e.threw THEN [g EXCEPT !.outcome = "rejected"]
           ELSE [g EXCEPT !.results = results, !.outcome = "resolved"]

----------------------------------------------------------------------------
(* SearchEngine.applyReranking.                                            *)

(* The sort of applyReranking: by reranker score when both have one, by    *)
(* fusion score otherwise.  Negative: a goes first.                        *)
RerankOrderBefore(a, b) ==
  IF IsDefined(a.rerankerScore) /\ IsDefined(b.rerankerScore)
  THEN RLess(b.rerankerScore, a.rerankerScore)
  ELSE RLess(b.rrfScore, a.rrfScore)

(* Array.prototype.sort as the engine that runs the extension performs it  *)
(* on an array shorter than 64 elements: the leading run is found (and     *)
(* reversed if it is strictly descending), then every later element is put *)
(* in place by binary insertion.  With a comparator that is a consistent   *)
(* order this is a stable sort; the comparator above is not always one.    *)
RECURSIVE ExtendRun(_, _, _)
ExtendRun(s, idx, descending) ==
  IF idx > Len(s) THEN Len(s)
  ELSE IF RerankOrderBefore(s[idx], s[idx - 1]) = descending
       THEN ExtendRun(s, idx + 1, descending)
       ELSE idx - 1

Reverse(s) == [i \in 1..Len(s) |-> s[Len(s) + 1 - i]]

(* The slot of pivot in s[left..right-1].                                  *)
RECURSIVE BinarySlot(_, _, _, _)
BinarySlot(s, pivot, left, right) ==
  IF left >= right THEN left
  ELSE LET mid == left + ((right - left) \div 2)
       IN  IF RerankOrderBefore(pivot, s[mid])
           THEN BinarySlot(s, pivot, left, mid)
           ELSE BinarySlot(s, pivot, mid + 1, right)

RECURSIVE BinaryInsertion(_, _)
BinaryInsertion(s, start) ==
  IF start > Len(s) THEN s
  ELSE LET slot == BinarySlot(s, s[start], 1, start)
           moved == SubSeq(s, 1, slot - 1) \o <<s[start]>> \o SubSeq(s, slot, start - 1)
                      \o SubSeq(s, start + 1, Len(s))
       IN  BinaryInsertion(moved, start + 1)

SortReranked(s) ==
  IF Len(s) < 2 THEN s
  ELSE LET descending == RerankOrderBefore(s[2], s[1])
           run == ExtendRun(s, 3, descending)
           head == IF descending THEN Reverse(SubSeq(s, 1, run)) ELSE SubSeq(s, 1, run)
       IN  BinaryInsertion(head \o SubSeq(s, run + 1, Len(s)), run + 1)

(* rerankerScoreMap.get(id)                                                *)
RerankedScore(reranked, id) ==
  IF \E i \in 1..Len(reranked) : reranked[i].id = id
  THEN reranked[CHOOSE i \in 1..Len(reranked) : reranked[i].id = id].score
  ELSE NoScore

(* Mutant: the list is rebuilt from the reranker's output alone.           *)
UpdatedResults_OnlyReranked(rankedResults, reranked) ==
  SortReranked(
    SelectSeq([i \in 1..Len(rankedResults) |->
                 [rankedResults[i] EXCEPT
                    !.rerankerScore = RerankedScore(reranked, rankedResults[i].changeId)]],
              LAMBDA r : IsDefined(r.rerankerScore)))

(* lines 228-250: map the reranker scores back and re-sort.                *)
UpdatedResults(rankedResults, reranked) ==
  SortReranked([i \in 1..Len(rankedResults) |->
                  [rankedResults[i] EXCEPT
                     !.rerankerScore = RerankedScore(reranked, rankedResults[i].changeId)]])

(* lines 208-219: the documents of the top slice whose record exists.      *)
RerankDocuments(rankedResults) ==
  LET head == SelectSeq(Slice(rankedResults, RERANKER_TOP_K), LAMBDA r : HasChange(r.changeId))
  IN  [i \in 1..Len(head) |-> [id |-> head[i].changeId, originalScore |-> head[i].rrfScore]]

(* The rerank stage is over with `reranked`: back in applyReranking, then  *)
(* in search up to its return.                                             *)
FinishReranking(f, reranked, storeThrows) ==
  Complete([f EXCEPT !.reranked = reranked], UpdatedResults(f.ranked, reranked), storeThrows)

(* applyReranking up to the first backend request, or to its return when   *)
(* no request is made.  docThrows: getChange throws while the documents    *)
(* are prepared, which the catch of applyReranking turns into the original *)
(* order.                                                                  *)
StartReranking(f, r, docThrows, storeThrows) ==
  LET documents == RerankDocuments(f.ranked)
      g == [f EXCEPT !.reranking = TRUE, !.docs = documents]
  IN  IF docThrows THEN Complete([g EXCEPT !.docs = <<>>], f.ranked, storeThrows)
      ELSE IF Len(documents) = 0 THEN Complete(g, f.ranked, storeThrows)
      ELSE IF ~r.enabled THEN FinishReranking(g, UnrankedCopy(documents), storeThrows)
      ELSE IF r.provider \in {"huggingface", "cohere"} /\ r.apiKey = ""
        THEN FinishReranking(g, passthroughRerank(documents, MAX_RESULTS), storeThrows)
      ELSE IF r.provider = "huggingface"
        THEN [g EXCEPT !.pc = "rerank", !.stage = "first", !.contacted = TRUE]
      ELSE IF r.provider = "cohere"
        THEN [g EXCEPT !.pc = "cohere", !.contacted = TRUE]
      ELSE FinishReranking(g, passthroughRerank(documents, MAX_RESULTS), storeThrows)

(* Mutant: no catch, the leg rejects.                                      *)
vectorSearch_NoCatch(f, threw, results) ==
  [f EXCEPT !.vecThrew = threw, !.vecRes = IF threw THEN <<>> ELSE results,
            !.legRejected = @ \/ threw]

(* Mutant: a failed lexical leg cancels the vector leg.                    *)
vectorSearch_Cancelled(f, threw, results) ==
  [f EXCEPT !.vecThrew = threw,
            !.vecRes = IF threw \/ f.kwThrew THEN <<>> ELSE results]

(* vectorSearch, lines 265-276: a throw of the embedding service or of the *)
(* vector store is caught and the leg resolves with no results.            *)
vectorSearch(f, threw, results) ==
  [f EXCEPT !.vecThrew = threw, !.vecRes = IF threw THEN <<>> ELSE results]

(* keywordSearch, lines 286-297: likewise for the metadata store.          *)
keywordSearch(f, threw, results) ==
  [f EXCEPT !.kwThrew = threw, !.kwRes = IF threw THEN <<>> ELSE results]

(* search.ts lines 116-149: both legs have settled (Promise.all rejects if *)
(* a leg does); normalize, fuse, and rerank if the engine and the service  *)
(* are both switched on.                                                   *)
AfterLegs(f, r, docThrows, storeThrows) ==
  LET normalizedVector == normalizeScores(VectorScoreInput(f.vecRes), MIN_VECTOR_SCORE)
      normalizedKeyword == normalizeScores(KeywordScoreInput(f.kwRes), MIN_KEYWORD_SCORE)
      rankedResults == reciprocalRankFusion(f.vecRes, f.kwRes, f.params,
                                            normalizedVector, normalizedKeyword)
      on == r.useReranker /\ isEnabled(r)
      g == [f EXCEPT !.ranked = rankedResults,
                     !.reranker = IF on THEN r.provider ELSE "off"]
  IN  IF f.legRejected
      THEN [f EXCEPT !.pc = "done", !.outcome = "rejected"]
      ELSE IF on /\ Len(rankedResults) > 0
      THEN StartReranking(g, r, docThrows, storeThrows)
      ELSE Complete(g, rankedResults, storeThrows)

----------------------------------------------------------------------------
(* EmbeddingService.embed: the cache.                                      *)

(* embeddingCache.set(key, v), then the oldest key is deleted when the     *)
(* size is over the cap.  A key already present keeps its place.           *)
CacheSet(cache, key) ==
  LET added == IF \E i \in 1..Len(cache) : cache[i] = key THEN cache ELSE Append(cache, key)
  IN  IF Len(added) > CACHE_CAP THEN Tail(added) ELSE added

Cached(cache, key) == \E i \in 1..Len(cache) : cache[i] = key

----------------------------------------------------------------------------
(* Actions.                                                                *)

(* The value of sched after a step of the search call: 0 once it settled. *)
Scheduled(f, s) == IF f.pc \in {"idle", "done"} THEN 0 ELSE s
KeepSched == IF sched = 0 THEN 1 ELSE sched
FlipSched == 3 - sched

(* search(query) up to its first suspension.  vectorSearch runs to the     *)
(* embedding request (or to the vector store query on a cache hit, or      *)
(* fails at once when no provider is set); keywordSearch has no await and  *)
(* runs to its end.  The Boolean parameters say which collaborator calls   *)
(* throw.                                                                  *)
StartSearch(q, fl, hp, kwThrows, docThrows, storeThrows) ==
  /\ srch.pc \in {"idle", "done"}
  /\ LET f0 == [IdleFrame EXCEPT
                  !.query = q, !.filters = fl, !.params = hp,
                  !.enriched = [timeRange |-> enrichTimeRange(q, fl, now)]]
         f == keywordSearch(f0, kwThrows,
                            searchChanges(prepareFTSQuery(q), hp.rerankTopK))
     IN  srch' = IF ~emb.configured
                 THEN AfterLegs(vectorSearch(f, TRUE, <<>>), rr, docThrows, storeThrows)
                 ELSE IF Cached(emb.cache, q) THEN [f EXCEPT !.pc = "vstore"]
                 ELSE [f EXCEPT !.pc = "embed", !.attempt = 1]
  /\ UNCHANGED <<now, rr, emb, hist, fz>>
  /\ sched' = Scheduled(srch', KeepSched)

(* The embedding provider answers the request in flight.                   *)
EmbedRespondOk ==
  /\ srch.pc = "embed"
  /\ emb' = [emb EXCEPT !.cache = CacheSet(@, srch.query)]
  /\ srch' = [srch EXCEPT !.pc = "vstore"]
  /\ UNCHANGED <<now, rr, hist, fz>>
  /\ sched' = Scheduled(srch', KeepSched)

(* The request fails: retry(fn, 3, 1000) sleeps and asks again, and throws *)
(* after the third failure, which vectorSearch turns into an empty leg.    *)
EmbedRespondFail(docThrows, storeThrows) ==
  /\ srch.pc = "embed"
  /\ srch' = IF srch.attempt < MAX_RETRIES
             THEN [srch EXCEPT !.attempt = @ + 1]
             ELSE AfterLegs(vectorSearch(srch, TRUE, <<>>), rr, docThrows, storeThrows)
  /\ UNCHANGED <<now, rr, emb, hist, fz>>
  /\ sched' = Scheduled(srch', KeepSched)

(* The vector store query returns or throws.                               *)
VectorStoreRespond(vecThrows, docThrows, storeThrows) ==
  /\ srch.pc = "vstore"
  /\ srch' = AfterLegs(
               vectorSearch(srch, vecThrows,
                            VectorStoreSearch(srch.query, srch.params.rerankTopK,
                                              srch.enriched)),
               rr, docThrows, storeThrows)
  /\ UNCHANGED <<now, rr, emb, hist, fz>>
  /\ sched' = Scheduled(srch', FlipSched)

(* rerankWithHuggingFace: scores.push(score) for the current document,     *)
(* then the request for the next one, or the end of the loop.              *)
PushScore(f, score, isFailure, storeThrows) ==
  LET i == Len(f.scores) + 1
      g == [f EXCEPT !.scores = Append(@, score),
                     !.failed = IF isFailure THEN @ \cup {i} ELSE @]
  IN  IF i < Len(f.docs)
      THEN [g EXCEPT !.stage = "first"]
      ELSE FinishReranking([g EXCEPT !.stage = "none"],
                           HuggingFaceResult(g.docs, g.scores, MAX_RESULTS), storeThrows)

CurrentDoc(f) == f.docs[Len(f.scores) + 1]

(* The backend answers OK with a body.                                     *)
RerankRespondBody(body, storeThrows) ==
  /\ srch.pc = "rerank"
  /\ srch' = PushScore(srch, DocScore(CurrentDoc(srch), body),
                       body \in Unparseable, storeThrows)
  /\ UNCHANGED <<now, rr, emb, hist, fz>>
  /\ sched' = Scheduled(srch', KeepSched)

(* The backend answers with a non-OK status: the first request is repeated *)
(* in the [SEP] format, the second gives the document its original score.  *)
RerankRespondNotOk(storeThrows) ==
  /\ srch.pc = "rerank"
  /\ srch' = IF srch.stage = "first"
             THEN [srch EXCEPT !.stage = "alt"]
             ELSE PushScore(srch, FallbackScore(CurrentDoc(srch)), TRUE, storeThrows)
  /\ UNCHANGED <<now, rr, emb, hist, fz>>
  /\ sched' = Scheduled(srch', KeepSched)

(* fetch rejects (network error).                                          *)
RerankRespondError(storeThrows) ==
  /\ srch.pc = "rerank"
  /\ srch' = PushScore(srch, FallbackScore(CurrentDoc(srch)), TRUE, storeThrows)
  /\ UNCHANGED <<now, rr, emb, hist, fz>>
  /\ sched' = Scheduled(srch', KeepSched)

(* AbortSignal.timeout(EMBEDDING_TIMEOUT_MS) aborts the request.           *)
RerankTimeout(storeThrows) ==
  /\ srch.pc = "rerank"
  /\ srch' = PushScore(srch, FallbackScore(CurrentDoc(srch)), TRUE, storeThrows)
  /\ UNCHANGED <<now, rr, emb, hist, fz>>
  /\ sched' = Scheduled(srch', FlipSched)

(* rerankWithCohere: one request for all documents.                        *)
CohereRespondOk(storeThrows) ==
  /\ srch.pc = "cohere"
  /\ srch' = FinishReranking(srch, CohereResult(srch.docs, MAX_RESULTS), storeThrows)
  /\ UNCHANGED <<now, rr, emb, hist, fz>>
  /\ sched' = Scheduled(srch', KeepSched)

(* Non-OK status, a rejected fetch, or a body without a results array:     *)
(* each throws inside the try, and the catch returns the passthrough.      *)
CohereFail(f, storeThrows) ==
  FinishReranking([f EXCEPT !.wholeFailed = TRUE],
                  passthroughRerank(f.docs, MAX_RESULTS), storeThrows)

CohereRespondFail(storeThrows) ==
  /\ srch.pc = "cohere"
  /\ srch' = CohereFail(srch, storeThrows)
  /\ UNCHANGED <<now, rr, emb, hist, fz>>
  /\ sched' = Scheduled(srch', KeepSched)

CohereTimeout(storeThrows) ==
  /\ srch.pc = "cohere"
  /\ srch' = CohereFail(srch, storeThrows)
  /\ UNCHANGED <<now, rr, emb, hist, fz>>
  /\ sched' = Scheduled(srch', FlipSched)

(* SearchEngine.setRerankerEnabled(enabled, apiKey?)                       *)
setRerankerEnabled(enabled, apiKey) ==
  /\ rr' = [rr EXCEPT !.useReranker = enabled,
                      !.apiKey = IF apiKey # "" THEN apiKey ELSE @,
                      !.enabled = enabled,
                      !.lastSet = IF enabled THEN "true" ELSE "false"]
  /\ UNCHANGED <<now, emb, srch, hist, fz, sched>>

(* SearchEngine.updateRerankerConfig(config): Object.assign of the fields  *)
(* the caller gives.                                                       *)
updateRerankerConfigKey(apiKey) ==
  /\ rr' = [rr EXCEPT !.apiKey = apiKey]
  /\ UNCHANGED <<now, emb, srch, hist, fz, sched>>

updateRerankerConfigProvider(provider) ==
  /\ rr' = [rr EXCEPT !.provider = provider]
  /\ UNCHANGED <<now, emb, srch, hist, fz, sched>>

(* A day passes.                                                           *)
Tick ==
  /\ now < Now0 + MaxTicks * Day
  /\ now' = now + Day
  /\ UNCHANGED <<rr, emb, srch, hist, fz, sched>>

ApiKeys == {"", "key"}
Providers == {"huggingface", "cohere"}

(* The steps of the program and of its timers.                             *)
ProgramStep ==
  \/ \E vecThrows, docThrows, storeThrows \in BOOLEAN :
       VectorStoreRespond(vecThrows, docThrows, storeThrows)
  \/ \E storeThrows \in BOOLEAN : RerankTimeout(storeThrows)
  \/ \E storeThrows \in BOOLEAN : CohereTimeout(storeThrows)

(* The steps of the callers and of the remote backends.                    *)
EnvironmentStep ==
  \/ \E q \in Queries, fl \in FilterChoices, hp \in ParamChoices, kwThrows \in BOOLEAN :
       IF emb.configured
       THEN StartSearch(q, fl, hp, kwThrows, FALSE, FALSE)
       ELSE \E docThrows, storeThrows \in BOOLEAN :
              StartSearch(q, fl, hp, kwThrows, docThrows, storeThrows)
  \/ EmbedRespondOk
  \/ IF srch.pc = "embed" /\ srch.attempt < MAX_RETRIES
     THEN EmbedRespondFail(FALSE, FALSE)
     ELSE \E docThrows, storeThrows \in BOOLEAN : EmbedRespondFail(docThrows, storeThrows)
  \/ \E body \in Bodies, storeThrows \in BOOLEAN : RerankRespondBody(body, storeThrows)
  \/ \E storeThrows \in BOOLEAN : RerankRespondNotOk(storeThrows)
  \/ \E storeThrows \in BOOLEAN : RerankRespondError(storeThrows)
  \/ \E storeThrows \in BOOLEAN : CohereRespondOk(storeThrows)
  \/ \E storeThrows \in BOOLEAN : CohereRespondFail(storeThrows)
  \/ \E enabled \in BOOLEAN, apiKey \in ApiKeys : setRerankerEnabled(enabled, apiKey)
  \/ \E apiKey \in ApiKeys : updateRerankerConfigKey(apiKey)
  \/ \E provider \in Providers : updateRerankerConfigProvider(provider)
  \/ Tick

Next == ProgramStep \/ EnvironmentStep

Spec == Init /\ [][Next]_vars

(* The same steps for one query and one credential, with a metadata store  *)
(* that does not throw: the environment of the progress properties.        *)
LiveEnvironmentStep ==
  \/ \E kwThrows \in BOOLEAN :
       StartSearch(T_x, NoFilters, DefaultParams, kwThrows, FALSE, FALSE)
  \/ EmbedRespondOk
  \/ EmbedRespondFail(FALSE, FALSE)
  \/ \E body \in Bodies : RerankRespondBody(body, FALSE)
  \/ RerankRespondNotOk(FALSE)
  \/ RerankRespondError(FALSE)
  \/ CohereRespondOk(FALSE)
  \/ CohereRespondFail(FALSE)
  \/ setRerankerEnabled(TRUE, "key")
  \/ \E provider \in Providers : updateRerankerConfigProvider(provider)

LiveProgramStep ==
  \/ \E vecThrows \in BOOLEAN : VectorStoreRespond(vecThrows, FALSE, FALSE)
  \/ RerankTimeout(FALSE)
  \/ CohereTimeout(FALSE)

NextLive == LiveProgramStep \/ LiveEnvironmentStep

(* A store query is running or a request with a timeout is in flight.      *)
TimerArmed == srch.pc \in {"vstore", "rerank", "cohere"}

(* The local store answers and every armed timer fires; nothing obliges a  *)
(* remote backend to answer or a caller to call.  While TimerArmed holds,  *)
(* sched changes exactly when the store answers, a timer fires, or the     *)
(* call settles.                                                           *)
FairSpec == Init /\ [][NextLive]_vars /\ WF_sched(TimerArmed /\ sched' \in 0..2)


----------------------------------------------------------------------------
(* Direct runs of normalizeScores and reciprocalRankFusion on bounded      *)
(* rankings: a vector ranking may list a change id twice (a change may     *)
(* have several vectors), a lexical ranking lists distinct rows at ranks   *)
(* 1, 2, ... as searchChanges produces them.                               *)

MaxLeg == 2

FzIds == {"a", "b", "c"}
FzScores == {Rat(-2, 10), Rat(5, 10), Rat(9, 10)}
FzParams ==
  {DefaultParams,
   [vectorWeight |-> Zero, keywordWeight |-> One, rerankTopK |-> RERANK_TOP_K],
   [vectorWeight |-> One, keywordWeight |-> Zero, rerankTopK |-> RERANK_TOP_K]}

FzVectorRankings ==
  UNION { [1..n -> [changeId : FzIds, score : FzScores]] : n \in 0..MaxLeg }

FzKeywordRankings ==
  UNION { { [i \in 1..n |-> [changeId |-> ids[i], rank |-> i]] :
              ids \in { s \in [1..n -> FzIds] : \A i, j \in 1..n : i # j => s[i] # s[j] } } :
          n \in 0..MaxLeg }

InitFusion ==
  /\ sched = 0
  /\ now = Now0
  /\ rr = RerankerInit
  /\ emb = [configured |-> TRUE, cache |-> <<>>]
  /\ srch = IdleFrame
  /\ hist = NoHist
  /\ \E v \in FzVectorRankings, k \in FzKeywordRankings, hp \in FzParams :
       fz = [NoFusion EXCEPT !.stage = "input", !.vectorResults = v,
                             !.keywordResults = k, !.params = hp]

(* search.ts lines 127-134                                                 *)
FzNormalize ==
  /\ fz.stage = "input"
  /\ fz' = [fz EXCEPT
              !.stage = "normalized",
              !.normalizedVector =
                 normalizeScores(VectorScoreInput(fz.vectorResults), MIN_VECTOR_SCORE),
              !.normalizedKeyword =
                 normalizeScores(KeywordScoreInput(fz.keywordResults), MIN_KEYWORD_SCORE)]
  /\ UNCHANGED <<now, rr, emb, srch, hist, sched>>

(* search.ts lines 137-143                                                 *)
FzFuse ==
  /\ fz.stage = "normalized"
  /\ fz' = [fz EXCEPT
              !.stage = "fused",
              !.ranked = reciprocalRankFusion(fz.vectorResults, fz.keywordResults, fz.params,
                                              fz.normalizedVector, fz.normalizedKeyword)]
  /\ UNCHANGED <<now, rr, emb, srch, hist, sched>>

NextFusion == FzNormalize \/ FzFuse

SpecFusion == InitFusion /\ [][NextFusion]_vars

----------------------------------------------------------------------------
(* Two searches against collaborators that answer the same request the     *)
(* same way every time.  hist.world fixes how each collaborator behaves;   *)
(* Remember keeps one settled search to compare a later one with.          *)

Healthy ==
  [embedOk |-> TRUE, vecThrows |-> FALSE, kwThrows |-> FALSE,
   docThrows |-> FALSE, storeThrows |-> FALSE, garbled |-> {}]

Worlds ==
  { Healthy,
    [Healthy EXCEPT !.embedOk = FALSE],
    [Healthy EXCEPT !.kwThrows = TRUE],
    [Healthy EXCEPT !.garbled = {"b"}] }

World == hist.world

(* The body the backend of this world sends for the current document.      *)
WorldBody ==
  IF srch.pc = "rerank" /\ CurrentDoc(srch).id \in World.garbled
  THEN "garbage" ELSE "number"

InitIdem ==
  /\ sched = 0
  /\ now = Now0
  /\ rr = RerankerInit
  /\ emb = [configured |-> TRUE, cache |-> <<>>]
  /\ srch = IdleFrame
  /\ hist \in { [set |-> FALSE, world |-> w] : w \in Worlds }
  /\ fz = NoFusion

Remember ==
  /\ ~hist.set
  /\ srch.pc = "done"
  /\ hist' = [set |-> TRUE, world |-> hist.world, now |-> now,
               query |-> srch.query, filters |-> srch.filters, params |-> srch.params,
               reranker |-> srch.reranker,
               outcome |-> srch.outcome, results |-> srch.results]
  /\ UNCHANGED <<now, rr, emb, srch, fz, sched>>

NextIdem ==
  \/ \E q \in Queries, fl \in FilterChoices :
       StartSearch(q, fl, DefaultParams, World.kwThrows, World.docThrows, World.storeThrows)
  \/ IF World.embedOk THEN EmbedRespondOk
     ELSE EmbedRespondFail(World.docThrows, World.storeThrows)
  \/ VectorStoreRespond(World.vecThrows, World.docThrows, World.storeThrows)
  \/ RerankRespondBody(WorldBody, World.storeThrows)
  \/ \E enabled \in BOOLEAN : setRerankerEnabled(enabled, IF enabled THEN "key" ELSE "")
  \/ Tick
  \/ Remember

SpecIdem == InitIdem /\ [][NextIdem]_vars

----------------------------------------------------------------------------
(* SearchEngine.findSimilar and the direct calls of the engine's other     *)
(* functions.                                                              *)

(* The vector table: any selection of these rows.  A change may have more  *)
(* than one row; `near` also serves as the coordinate of the row's vector. *)
SimilarRows ==
  VectorRows \o
  << [changeId |-> "c", timestamp |-> Now0 - 60, near |-> 2, far |-> 3],
     [changeId |-> "a", timestamp |-> Now0 - 10, near |-> 3, far |-> 4] >>

RECURSIVE SelectRows(_, _, _)
SelectRows(rows, mask, n) ==
  IF n = 0 THEN <<>>
  ELSE SelectRows(rows, mask, n - 1) \o (IF mask[n] THEN <<rows[n]>> ELSE <<>>)

NoRow == [changeId |-> "", timestamp |-> 0, near |-> 0, far |-> 0]

(* VectorStore.getVectorByChangeId: the first row of the change, or null.  *)
getVectorByChangeId(rows, changeId) ==
  LET found == SelectSeq(rows, LAMBDA row : row.changeId = changeId)
  IN  IF found = <<>> THEN NoRow ELSE found[1]

(* VectorStore.search(vector, topK) with no filters, for a stored vector.  *)
VectorStoreSearchNear(rows, vectorRecord, topK) ==
  LET keyed == [i \in 1..Len(rows) |->
                  [v |-> rows[i], k |-> Rat(-Abs(rows[i].near - vectorRecord.near), 10)]]
      sorted == Slice(SortDesc(keyed), topK)
  IN  [i \in 1..Len(sorted) |->
         [changeId |-> sorted[i].v.changeId, score |-> RAdd(One, sorted[i].k)]]

(* Mutant: the reference change is not filtered out.                       *)
ExcludeReference_Keep(similar, changeId) == similar

(* similar.filter(r => r.changeId !== changeId)                            *)
ExcludeReference(similar, changeId) ==
  SelectSeq(similar, LAMBDA r : r.changeId # changeId)

findSimilar(rows, changeId, topK) ==
  IF ~HasChange(changeId)
  THEN [outcome |-> "rejected", error |-> "Change not found", results |-> <<>>]
  ELSE LET vectorRecord == getVectorByChangeId(rows, changeId)
       IN  IF vectorRecord = NoRow
           THEN [outcome |-> "rejected", error |-> "No embedding found", results |-> <<>>]
           ELSE LET similar == VectorStoreSearchNear(rows, vectorRecord, topK + 1)
                    filtered == ExcludeReference(similar, changeId)
                    head == SelectSeq(Slice(filtered, topK), LAMBDA r : HasChange(r.changeId))
                IN  [outcome |-> "resolved", error |-> "",
                     results |-> [i \in 1..Len(head) |->
                                    [changeId |-> head[i].changeId, score |-> head[i].score,
                                     vectorScore |-> head[i].score]]]

(* extractFilePatterns (utils).  Queries are lower-case sequences, on      *)
(* which the /i flag and toLowerCase() change nothing.                     *)

(* The position after a maximal run of characters outside cs from i.       *)
RECURSIVE SkipRunNot(_, _, _)
SkipRunNot(s, i, cs) ==
  IF i <= Len(s) /\ s[i] \notin cs THEN SkipRunNot(s, i + 1, cs) ELSE i

(* The alternatives of (?:in|from|file[s]?) in the order the matcher tries *)
(* them.                                                                   *)
FileKeywords ==
  << <<"i", "n">>, <<"f", "r", "o", "m">>, <<"f", "i", "l", "e", "s">>,
     <<"f", "i", "l", "e">> >>

(* \s+([^\s,]+(?:\.[a-z]+)?) from position j: the token's first position   *)
(* and the position after it; to = 0 when there is no match.               *)
FileTokenAt(s, j) ==
  LET u == SkipRun(s, j, Whitespace)
      e == SkipRunNot(s, u, Whitespace \cup {","})
  IN  IF u > j /\ e > u THEN [from |-> u, to |-> e] ELSE [from |-> 0, to |-> 0]

(* The match of the whole pattern at position i.                           *)
FileMatchAt(s, i) ==
  LET hits == { k \in 1..Len(FileKeywords) :
                  /\ HasAt(s, i, FileKeywords[k])
                  /\ FileTokenAt(s, i + Len(FileKeywords[k])).to > 0 }
  IN  IF hits = {} THEN [from |-> 0, to |-> 0]
      ELSE FileTokenAt(s, i + Len(FileKeywords[Least(hits)]))

(* query.match(/.../gi) and the forEach over it: one glob per match, the   *)
(* last whitespace-separated part of the match between the affixes.        *)
RECURSIVE FilePhrases(_, _)
FilePhrases(s, i) ==
  IF i > Len(s) THEN <<>>
  ELSE LET m == FileMatchAt(s, i)
       IN  IF m.to = 0 THEN FilePhrases(s, i + 1)
           ELSE << <<"*", "*", "/">> \o SubSeq(s, m.from, m.to - 1) \o <<"*">> >>
                  \o FilePhrases(s, m.to)

languageKeywords ==
  << [keyword |-> <<"t", "y", "p", "e", "s", "c", "r", "i", "p", "t">>,
      pattern |-> <<"*", "*", "/", "*", ".", "t", "s">>],
     [keyword |-> <<"j", "a", "v", "a", "s", "c", "r", "i", "p", "t">>,
      pattern |-> <<"*", "*", "/", "*", ".", "j", "s">>],
     [keyword |-> <<"p", "y", "t", "h", "o", "n">>,
      pattern |-> <<"*", "*", "/", "*", ".", "p", "y">>],
     [keyword |-> <<"j", "a", "v", "a">>,
      pattern |-> <<"*", "*", "/", "*", ".", "j", "a", "v", "a">>],
     [keyword |-> <<"r", "u", "s", "t">>,
      pattern |-> <<"*", "*", "/", "*", ".", "r", "s">>],
     [keyword |-> <<"g", "o">>,
      pattern |-> <<"*", "*", "/", "*", ".", "g", "o">>],
     [keyword |-> <<"r", "u", "b", "y">>,
      pattern |-> <<"*", "*", "/", "*", ".", "r", "b">>],
     [keyword |-> <<"p", "h", "p">>,
      pattern |-> <<"*", "*", "/", "*", ".", "p", "h", "p">>],
     [keyword |-> <<"c", "s", "s">>,
      pattern |-> <<"*", "*", "/", "*", ".", "c", "s", "s">>],
     [keyword |-> <<"h", "t", "m", "l">>,
      pattern |-> <<"*", "*", "/", "*", ".", "h", "t", "m", "l">>] >>

RECURSIVE LanguagePatterns(_, _)
LanguagePatterns(query, k) ==
  IF k > Len(languageKeywords) THEN <<>>
  ELSE (IF Includes(query, languageKeywords[k].keyword)
        THEN <<languageKeywords[k].pattern>> ELSE <<>>)
       \o LanguagePatterns(query, k + 1)

(* [...new Set(patterns)]: the first occurrence of each pattern, in order. *)
RECURSIVE Unique(_)
Unique(patterns) ==
  IF patterns = <<>> THEN <<>>
  ELSE LET init == Unique(SubSeq(patterns, 1, Len(patterns) - 1))
           last == patterns[Len(patterns)]
       IN  IF \E i \in 1..Len(init) : init[i] = last THEN init
           ELSE Append(init, last)

extractFilePatterns(query) ==
  Unique(FilePhrases(query, 1) \o LanguagePatterns(query, 1))

(* SearchEngine.enrichFilters: a copy of the supplied filters ({...filters}) *)
(* with the two facets set; the other fields are the supplied ones.        *)
(* Mutant: the extracted patterns replace the supplied ones.               *)
enrichFilters_Replace(query, filters, clock) ==
  LET filePatterns == extractFilePatterns(query)
  IN  [filters EXCEPT
         !.timeRange = enrichTimeRange(query, filters, clock),
         !.filePatterns = IF Len(filePatterns) > 0 THEN filePatterns ELSE @]

enrichFilters(query, filters, clock) ==
  LET filePatterns == extractFilePatterns(query)
  IN  [filters EXCEPT
         !.timeRange = enrichTimeRange(query, filters, clock),
         !.filePatterns = IF Len(filePatterns) > 0 THEN @ \o filePatterns ELSE @]

Q_parser ==
  <<"f", "i", "x", "e", "d", " ", "b", "u", "g", " ", "i", "n", " ",
    "p", "a", "r", "s", "e", "r", ".", "t", "s", " ",
    "y", "e", "s", "t", "e", "r", "d", "a", "y">>

Q_files ==
  <<"f", "r", "o", "m", " ", "u", "t", "i", "l", "s", ",", " ",
    "f", "i", "l", "e", "s", " ", " ", "m", "a", "i", "n", ".", "g", "o", " ",
    "i", "n", " ", "p", "y", "t", "h", "o", "n">>

Q_java ==
  <<"j", "a", "v", "a", "s", "c", "r", "i", "p", "t", " ", "i", "n", ",", "x">>

EnrichQueries == {Q_parser, Q_files, Q_java, T_fix, T_today}

P_md == <<"*", "*", "/", "*", ".", "m", "d">>
P_go == <<"*", "*", "/", "*", ".", "g", "o">>

SuppliedFilters ==
  { [timeRange |-> r, filePatterns |-> p, languages |-> l] :
      r \in {NoRange, [start |-> 0, end |-> Now0]},
      p \in {<<>>, <<P_md>>, <<P_go, P_md>>},
      l \in {<<>>, <<"typescript">>} }

(* Clock readings: mid-afternoon, midnight, late morning of the next day.  *)
CallClocks == {Now0, Now0 + 8 * Hour, Now0 + 19 * Hour}

EnrichCalls ==
  { [stage |-> "called", fn |-> "enrichFilters", query |-> q, filters |-> fl] :
      q \in EnrichQueries, fl \in SuppliedFilters }

(* SearchEngine.extractQueryTerms and generateHighlights, as hydrateResults *)
(* applies them to one record.                                             *)

UpperCase ==
  <<"A", "B", "C", "D", "E", "F", "G", "H", "I", "J", "K", "L", "M",
    "N", "O", "P", "Q", "R", "S", "T", "U", "V", "W", "X", "Y", "Z">>

LowerCase ==
  <<"a", "b", "c", "d", "e", "f", "g", "h", "i", "j", "k", "l", "m",
    "n", "o", "p", "q", "r", "s", "t", "u", "v", "w", "x", "y", "z">>

toLowerCase(s) ==
  [i \in 1..Len(s) |->
     IF \E k \in 1..26 : UpperCase[k] = s[i]
     THEN LowerCase[CHOOSE k \in 1..26 : UpperCase[k] = s[i]]
     ELSE s[i]]

(* \w and \s.                                                              *)
WordChars ==
  { UpperCase[k] : k \in 1..26 } \cup { LowerCase[k] : k \in 1..26 }
    \cup Digits \cup {"_"}

SpaceChars == {" ", "\n"}

ReplaceNonWord(s) ==
  [i \in 1..Len(s) |-> IF s[i] \in WordChars \cup SpaceChars THEN s[i] ELSE " "]

(* split(/\s+/) without a trim: leading or trailing white space gives an   *)
(* empty first or last part.                                               *)
RECURSIVE SplitSpace(_, _, _)
SplitSpace(s, i, cur) ==
  IF i > Len(s) THEN <<cur>>
  ELSE IF s[i] \in SpaceChars
       THEN <<cur>> \o SplitSpace(s, SkipRun(s, i, SpaceChars), <<>>)
       ELSE SplitSpace(s, i + 1, Append(cur, s[i]))

extractQueryTerms(query) ==
  SelectSeq(SplitSpace(ReplaceNonWord(toLowerCase(query)), 1, <<>>),
            LAMBDA term : Len(term) > 2)

(* a.toLowerCase().includes(term.toLowerCase())                            *)
IncludesTerm(a, term) == Includes(toLowerCase(a), toLowerCase(term))

SomeTerm(a, queryTerms) ==
  \E k \in 1..Len(queryTerms) : IncludesTerm(a, queryTerms[k])

(* split('\n')                                                             *)
RECURSIVE SplitLines(_, _, _)
SplitLines(s, i, cur) ==
  IF i > Len(s) THEN <<cur>>
  ELSE IF s[i] = "\n" THEN <<cur>> \o SplitLines(s, i + 1, <<>>)
       ELSE SplitLines(s, i + 1, Append(cur, s[i]))

RECURSIVE Join(_, _)
Join(parts, sep) ==
  IF parts = <<>> THEN <<>>
  ELSE IF Len(parts) = 1 THEN parts[1]
       ELSE parts[1] \o sep \o Join(Tail(parts), sep)

MaxDiffLines == 5

(* Mutant: the file path is compared as stored, not lower-cased.           *)
PathMatches_CaseSensitive(change, queryTerms) ==
  SelectSeq(queryTerms, LAMBDA term : Includes(change.filePath, toLowerCase(term)))

PathMatches(change, queryTerms) ==
  SelectSeq(queryTerms, LAMBDA term : IncludesTerm(change.filePath, term))

generateHighlights(change, queryTerms) ==
  LET pathMatches == PathMatches(change, queryTerms)
      symbolMatches ==
        SelectSeq(change.symbols, LAMBDA symbol : SomeTerm(symbol, queryTerms))
      matching ==
        SelectSeq(SplitLines(change.diff, 1, <<>>),
                  LAMBDA line : SomeTerm(line, queryTerms))
      matchingLines ==
        SubSeq(matching, 1,
               IF Len(matching) < MaxDiffLines THEN Len(matching) ELSE MaxDiffLines)
      summaryMatches ==
        SelectSeq(queryTerms, LAMBDA term : IncludesTerm(change.summary, term))
  IN  (IF Len(pathMatches) > 0
       THEN <<[field |-> "filePath", snippet |-> change.filePath,
               matchedTerms |-> pathMatches]>>
       ELSE <<>>)
      \o
      (IF Len(symbolMatches) > 0
       THEN <<[field |-> "symbols", snippet |-> Join(symbolMatches, <<",", " ">>),
               matchedTerms |-> symbolMatches]>>
       ELSE <<>>)
      \o
      (IF Len(matchingLines) > 0
       THEN <<[field |-> "diff", snippet |-> Join(matchingLines, <<"\n">>),
               matchedTerms |->
                 SelectSeq(queryTerms, LAMBDA term :
                   \E k \in 1..Len(matchingLines) :
                     IncludesTerm(matchingLines[k], term))]>>
       ELSE <<>>)
      \o
      (IF change.summary # <<>> /\ Len(summaryMatches) > 0
       THEN <<[field |-> "summary", snippet |-> change.summary,
               matchedTerms |-> summaryMatches]>>
       ELSE <<>>)

(* Records and queries of the highlight calls.  An absent summary is the   *)
(* empty sequence, which the guard treats as it treats undefined.          *)
HighlightChanges ==
  { [filePath |-> <<"s", "r", "c", "/", "P", "a", "r", "s", "e", "r", ".", "t", "s">>, symbols |-> <<<<"p", "a", "r", "s", "e", "E", "x", "p", "r">>, <<"B", "u", "g">>>>,
     diff |-> <<"+", " ", "f", "i", "x", " ", "P", "a", "r", "s", "e", "r", "\n", "-", " ", "x", "\n", "+", " ", "b", "u", "g">>, summary |-> <<"B", "u", "g", " ", "f", "i", "x">>],
    [filePath |-> <<"l", "i", "b", "/", "u", "t", "i", "l", ".", "g", "o">>, symbols |-> <<>>, diff |-> <<>>,
     summary |-> <<>>],
    [filePath |-> <<"a", "/", "b", "u", "g", "/", "f", "i", "x", ".", "t", "s">>, symbols |-> <<<<"f", "i", "x", "B", "u", "g">>>>,
     diff |-> <<"b", "u", "g", "\n", "b", "u", "g", "\n", "b", "u", "g", "\n", "b", "u", "g", "\n", "b", "u", "g", "\n", "f", "i", "x", " ", "b", "u", "g">>, summary |-> <<"t", "s">>] }

HighlightQueries ==
  { <<"P", "a", "r", "s", "e", "r", " ", "b", "u", "g", " ", "t", "s">>, <<"f", "i", "x", " ", "p", "a", "r", "s", "e", "r", ".", "t", "s">>, <<" ", "L", "I", "B", "/", "U", "T", "I", "L">>, <<"f", "i", "x", " ", "t", "h", "e", " ", "B", "u", "g", " ", "i", "n", " ", "a">>, <<"g", "o">>,
    <<"s", "r", "c", "\n", "f", "i", "x", " ">> }

HighlightCalls ==
  { [stage |-> "called", fn |-> "generateHighlights", query |-> q, change |-> c] :
      q \in HighlightQueries, c \in HighlightChanges }

(* SearchEngine.keywordSearch called on its own: the expression of         *)
(* prepareFTSQuery goes to searchChanges; a throw of the store gives [].   *)
keywordSearchCall(query, topK, storeThrows) ==
  IF storeThrows THEN <<>> ELSE searchChanges(prepareFTSQuery(query), topK)

Q_fixbox == <<"f", "i", "x", " ", "b", "o", "x">>
Q_xfix == <<"x", " ", "f", "i", "x">>
Q_fi == <<"f", "i">>

Q_unsafe == <<"\"", "*">>
Q_marks == <<"f", "i", "-", "x", " ", "(", "b", "o", "^", "x", ")", " ", "'", "a", "'">>
Q_short == <<"a", " ", "b">>

KeywordQueries ==
  {Q_fixbox, Q_xfix, Q_fi, T_fix, T_x, T_today, Q_unsafe, Q_marks, Q_short, <<>>}

MaxTopK == 2

KeywordCalls ==
  { [stage |-> "called", fn |-> "keywordSearch", query |-> q, topK |-> k,
     storeThrows |-> t] :
      q \in KeywordQueries, k \in 1..(MaxTopK + 1), t \in BOOLEAN }


FindSimilarCalls ==
  { [stage |-> "called", fn |-> "findSimilar",
     rows |-> SelectRows(SimilarRows, mask, Len(SimilarRows)),
     changeId |-> id, topK |-> k] :
      mask \in [1..Len(SimilarRows) -> BOOLEAN], id \in {"a", "b", "c", "d", "z"},
      k \in 0..MaxTopK }

InitCalls ==
  /\ sched = 0
  /\ now \in CallClocks
  /\ rr = RerankerInit
  /\ emb = [configured |-> TRUE, cache |-> <<>>]
  /\ srch = IdleFrame
  /\ hist = NoHist
  /\ fz \in FindSimilarCalls \cup EnrichCalls \cup HighlightCalls
             \cup KeywordCalls
  /\ fz.fn # "enrichFilters" => now = Now0

FindSimilarReturn ==
  /\ fz.stage = "called" /\ fz.fn = "findSimilar"
  /\ fz' = [stage |-> "returned", fn |-> fz.fn, rows |-> fz.rows,
            changeId |-> fz.changeId, topK |-> fz.topK,
            ret |-> findSimilar(fz.rows, fz.changeId, fz.topK)]
  /\ UNCHANGED <<now, rr, emb, srch, hist, sched>>

(* enrichFilters returns.  filters is the caller's object after the call:  *)
(* the code assigns to its copy only, and builds a new filePatterns array. *)
EnrichFiltersReturn ==
  /\ fz.stage = "called" /\ fz.fn = "enrichFilters"
  /\ fz' = [stage |-> "returned", fn |-> fz.fn, query |-> fz.query,
            filters |-> fz.filters,
            ret |-> enrichFilters(fz.query, fz.filters, now)]
  /\ UNCHANGED <<now, rr, emb, srch, hist, sched>>

(* hydrateResults, for one record that the metadata store has.             *)
GenerateHighlightsReturn ==
  /\ fz.stage = "called" /\ fz.fn = "generateHighlights"
  /\ fz' = [stage |-> "returned", fn |-> fz.fn, query |-> fz.query,
            change |-> fz.change,
            ret |-> generateHighlights(fz.change, extractQueryTerms(fz.query))]
  /\ UNCHANGED <<now, rr, emb, srch, hist, sched>>

KeywordSearchReturn ==
  /\ fz.stage = "called" /\ fz.fn = "keywordSearch"
  /\ fz' = [stage |-> "returned", fn |-> fz.fn, query |-> fz.query,
            topK |-> fz.topK, storeThrows |-> fz.storeThrows,
            ftsQuery |-> prepareFTSQuery(fz.query),
            ret |-> keywordSearchCall(fz.query, fz.topK, fz.storeThrows)]
  /\ UNCHANGED <<now, rr, emb, srch, hist, sched>>

NextCalls ==
  \/ KeywordSearchReturn
  \/ FindSimilarReturn
  \/ EnrichFiltersReturn
  \/ GenerateHighlightsReturn

SpecCalls == InitCalls /\ [][NextCalls]_vars

----------------------------------------------------------------------------

(* EmbeddingService: concurrent embed calls and updateConfig.  `emb` is the *)
(* service (provider 0 is null), `fz.calls` the calls in progress.  A       *)
(* content hash is a number, a vector is the provider that produced it.     *)

MaxCalls == 2

Callers == 1..MaxCalls

EmbeddingProviders == {1, 2}

(* Texts by hash: one that a filled cache holds as its oldest entry, one    *)
(* that no initial cache holds.                                             *)
EmbedTexts == {1, CACHE_CAP + 1}

(* Map.get                                                                  *)
CacheHas(cache, key) == \E i \in 1..Len(cache) : cache[i].key = key

CacheGet(cache, key) ==
  cache[CHOOSE i \in 1..Len(cache) : cache[i].key = key].vector

(* Map.set: a key already present keeps its place and takes the new value.  *)
MapPut(cache, key, vector) ==
  IF CacheHas(cache, key)
  THEN [i \in 1..Len(cache) |->
          IF cache[i].key = key THEN [key |-> key, vector |-> vector] ELSE cache[i]]
  ELSE Append(cache, [key |-> key, vector |-> vector])

(* Mutant: no eviction.                                                     *)
CachePut_NoEviction(cache, key, vector) == MapPut(cache, key, vector)

(* embed, lines 329-337: set, then delete the first key when over the cap.  *)
CachePut(cache, key, vector) ==
  LET put == MapPut(cache, key, vector)
  IN  IF Len(put) > CACHE_CAP THEN Tail(put) ELSE put

FilledCache(n) == [i \in 1..n |-> [key |-> i, vector |-> 1]]

(* attempt, askedOf: the request in flight and the provider it went to;     *)
(* asked: the call has sent a request; active: for a call served from the   *)
(* cache, the provider of the service at that moment.                       *)
IdleCall ==
  [pc |-> "idle", text |-> 0, attempt |-> 0, askedOf |-> 0, asked |-> FALSE,
   vector |-> 0, active |-> 0]

(* The cache holds what earlier embed calls left in it: nothing, or as many *)
(* entries as the cap allows.                                               *)
InitEmbed ==
  /\ sched = 0
  /\ now = Now0
  /\ rr = RerankerInit
  /\ srch = IdleFrame
  /\ hist = NoHist
  /\ \E n \in {0, CACHE_CAP} :
       emb = [configured |-> TRUE, provider |-> 1, cache |-> FilledCache(n),
              isProcessing |-> FALSE]
  /\ fz = [stage |-> "embedding", calls |-> [c \in Callers |-> IdleCall]]

(* updateConfig: the provider is created anew from the merged config, or    *)
(* is null when its creation throws.  The cache is not touched.             *)
updateConfig(provider) ==
  /\ fz.stage \in {"embedding", "batch"}
  /\ provider # emb.provider
  /\ emb' = [emb EXCEPT !.provider = provider, !.configured = provider # 0]
  /\ UNCHANGED <<now, rr, srch, hist, fz, sched>>

(* embed(text) up to its first await or to its return.  Callers are         *)
(* interchangeable: they are taken in the order of their numbers.           *)
EmbedCall(c, text) ==
  /\ fz.stage = "embedding"
  /\ fz.calls[c].pc = "idle"
  /\ \A b \in Callers : b < c => fz.calls[b].pc # "idle"
  /\ fz' = [fz EXCEPT !.calls[c] =
              IF emb.provider = 0
              THEN [IdleCall EXCEPT !.pc = "rejected", !.text = text]
              ELSE IF CacheHas(emb.cache, text)
              THEN [IdleCall EXCEPT !.pc = "resolved", !.text = text,
                                    !.vector = CacheGet(emb.cache, text),
                                    !.active = emb.provider]
              ELSE [IdleCall EXCEPT !.pc = "provider", !.text = text,
                                    !.attempt = 1, !.askedOf = emb.provider,
                                    !.asked = TRUE]]
  /\ UNCHANGED <<now, rr, emb, srch, hist, sched>>

(* The provider answers: the vector is cached, the cache is trimmed, and    *)
(* the call returns, all without an await in between.                       *)
EmbedProviderAnswers(c) ==
  /\ fz.stage = "embedding"
  /\ fz.calls[c].pc = "provider"
  /\ fz.calls[c].askedOf # 0
  /\ LET call == fz.calls[c]
     IN  /\ emb' = [emb EXCEPT !.cache = CachePut(@, call.text, call.askedOf)]
         /\ fz' = [fz EXCEPT !.calls[c] =
                     [call EXCEPT !.pc = "resolved", !.vector = call.askedOf,
                                  !.attempt = 0, !.askedOf = 0]]
  /\ UNCHANGED <<now, rr, srch, hist, sched>>

(* The request fails: retry sleeps and calls this.provider!.embed again,    *)
(* on the provider of that moment (a null provider makes that attempt       *)
(* fail too); the third failure is thrown.                                  *)
EmbedProviderFails(c) ==
  /\ fz.stage = "embedding"
  /\ fz.calls[c].pc = "provider"
  /\ fz' = [fz EXCEPT !.calls[c] =
              IF @.attempt < MAX_RETRIES
              THEN [@ EXCEPT !.attempt = @ + 1, !.askedOf = emb.provider]
              ELSE [@ EXCEPT !.pc = "rejected", !.attempt = 0, !.askedOf = 0]]
  /\ UNCHANGED <<now, rr, emb, srch, hist, sched>>

NextEmbed ==
  \/ \E c \in Callers, text \in EmbedTexts : EmbedCall(c, text)
  \/ \E c \in Callers : EmbedProviderAnswers(c)
  \/ \E c \in Callers : EmbedProviderFails(c)
  \/ \E provider \in EmbeddingProviders \cup {0} : updateConfig(provider)

SpecEmbed == InitEmbed /\ [][NextEmbed]_vars

----------------------------------------------------------------------------

(* EmbeddingService.processChanges: calls that overlap in time, against a  *)
(* provider and a vector store that answer or fail, and updateConfig.      *)
(* A call is given by the number of batches batchArray cuts its changes    *)
(* into (config.batchSize is positive).                                    *)

MaxBatches == 2
MaxRuns == 3
Runners == 1..MaxRuns

IdleRun ==
  [pc |-> "idle", batches |-> 0, batch |-> 0, attempt |-> 0,
   askedOf |-> 0]

Active(run) == run.pc \in {"embedBatch", "addVectors"}

InitBatch ==
  /\ sched = 0
  /\ now = Now0
  /\ rr = RerankerInit
  /\ srch = IdleFrame
  /\ hist = NoHist
  /\ \E provider \in {0, 1} :
       emb = [configured |-> provider # 0, provider |-> provider, cache |-> <<>>,
              isProcessing |-> FALSE]
  /\ fz = [stage |-> "batch", runs |-> [c \in Runners |-> IdleRun],
           requests |-> 0, stored |-> 0, emitted |-> 0]

(* Mutant: no finally, the flag is cleared on the normal path only.        *)
EndRun_NoFinally(e, threw) ==
  IF threw THEN e ELSE [e EXCEPT !.isProcessing = FALSE]

(* lines 442-444: finally { this.isProcessing = false }.                   *)
EndRun(e, threw) == [e EXCEPT !.isProcessing = FALSE]

(* embedBatch up to its await: it throws without a provider, otherwise     *)
(* retry makes the first request.  attempt 0: no request, the rejection is *)
(* pending.                                                                *)
AwaitEmbedBatch(run, batch) ==
  [run EXCEPT !.pc = "embedBatch", !.batch = batch,
              !.attempt = IF emb.provider = 0 THEN 0 ELSE 1,
              !.askedOf = emb.provider]

Requested(run) == IF run.pc = "embedBatch" /\ run.askedOf # 0 THEN 1 ELSE 0

(* processChanges(changes) up to its first await or to its return: the     *)
(* test of the flag and its setting have no await between them.  Runners   *)
(* are interchangeable: they are taken in the order of their numbers.      *)
processChanges(c, batches) ==
  /\ fz.stage = "batch"
  /\ fz.runs[c].pc = "idle"
  /\ \A b \in Runners : b < c => fz.runs[b].pc # "idle"
  /\ IF emb.isProcessing
     THEN /\ fz' = [fz EXCEPT !.runs[c] = [IdleRun EXCEPT !.pc = "skipped"]]
          /\ emb' = emb
     ELSE IF batches = 0
     THEN /\ fz' = [fz EXCEPT !.runs[c] = [IdleRun EXCEPT !.pc = "done"],
                              !.emitted = @ + 1]
          /\ emb' = EndRun([emb EXCEPT !.isProcessing = TRUE], FALSE)
     ELSE LET run == AwaitEmbedBatch([IdleRun EXCEPT !.batches = batches], 1)
          IN  /\ fz' = [fz EXCEPT !.runs[c] = run, !.requests = @ + Requested(run)]
              /\ emb' = [emb EXCEPT !.isProcessing = TRUE]
  /\ UNCHANGED <<now, rr, srch, hist, sched>>

(* The provider answers the batch: vectorStore.addVectors is called.       *)
EmbedBatchAnswers(c) ==
  /\ fz.stage = "batch"
  /\ fz.runs[c].pc = "embedBatch"
  /\ fz.runs[c].askedOf # 0
  /\ fz' = [fz EXCEPT !.runs[c] = [@ EXCEPT !.pc = "addVectors", !.attempt = 0,
                                            !.askedOf = 0]]
  /\ UNCHANGED <<now, rr, emb, srch, hist, sched>>

(* The attempt fails: retry sleeps and asks the provider of that moment    *)
(* again; the third failure, or the throw of embedBatch itself, leaves     *)
(* processChanges through its finally.                                     *)
EmbedBatchFails(c) ==
  /\ fz.stage = "batch"
  /\ fz.runs[c].pc = "embedBatch"
  /\ LET run == fz.runs[c]
     IN  IF run.attempt \in 1..(MAX_RETRIES - 1)
         THEN LET again == [run EXCEPT !.attempt = @ + 1, !.askedOf = emb.provider]
              IN  /\ fz' = [fz EXCEPT !.runs[c] = again,
                                      !.requests = @ + Requested(again)]
                  /\ emb' = emb
         ELSE /\ fz' = [fz EXCEPT !.runs[c] =
                          [IdleRun EXCEPT !.pc = "threw"]]
              /\ emb' = EndRun(emb, TRUE)
  /\ UNCHANGED <<now, rr, srch, hist, sched>>

(* addVectors answers: updateEmbeddingId for each change of the batch,     *)
(* then the next batch, or INDEX_UPDATED and the finally.                  *)
AddVectorsAnswers(c) ==
  /\ fz.stage = "batch"
  /\ fz.runs[c].pc = "addVectors"
  /\ LET run == fz.runs[c]
     IN  IF run.batch < run.batches
         THEN LET next == AwaitEmbedBatch(run, run.batch + 1)
              IN  /\ fz' = [fz EXCEPT !.runs[c] = next, !.stored = @ + 1,
                                      !.requests = @ + Requested(next)]
                  /\ emb' = emb
         ELSE /\ fz' = [fz EXCEPT !.runs[c] =
                          [IdleRun EXCEPT !.pc = "done"],
                                  !.stored = @ + 1, !.emitted = @ + 1]
              /\ emb' = EndRun(emb, FALSE)
  /\ UNCHANGED <<now, rr, srch, hist, sched>>

(* addVectors or updateEmbeddingId throws.                                 *)
AddVectorsFails(c) ==
  /\ fz.stage = "batch"
  /\ fz.runs[c].pc = "addVectors"
  /\ fz' = [fz EXCEPT !.runs[c] =
              [IdleRun EXCEPT !.pc = "threw"]]
  /\ emb' = EndRun(emb, TRUE)
  /\ UNCHANGED <<now, rr, srch, hist, sched>>

NextBatch ==
  \/ \E c \in Runners, batches \in 0..MaxBatches : processChanges(c, batches)
  \/ \E c \in Runners : EmbedBatchAnswers(c)
  \/ \E c \in Runners : EmbedBatchFails(c)
  \/ \E c \in Runners : AddVectorsAnswers(c)
  \/ \E c \in Runners : AddVectorsFails(c)
  \/ \E provider \in {0, 1} : updateConfig(provider)

SpecBatch == InitBatch /\ [][NextBatch]_vars

(* C9: every entry normalizeScores outputs has normalizedScore in [0, 1],  *)
(* and when all raw scores of a non-empty input are equal, every input     *)
(* entry is output with normalizedScore exactly 1.                         *)

InUnit(x) == RLeq(Zero, x) /\ RLeq(x, One)

AllEqualScores(input) == \A i, j \in 1..Len(input) : input[i].score = input[j].score

NormalizedWithinBounds(input, out) ==
  /\ \A i \in 1..Len(out.results) : InUnit(out.results[i].normalizedScore)
  /\ (Len(input) > 0 /\ AllEqualScores(input)) =>
       /\ Len(out.results) = Len(input)
       /\ \A i \in 1..Len(out.results) : out.results[i].normalizedScore = One

C9_NormalizationBounds ==
  fz.stage \in {"normalized", "fused"} =>
    /\ NormalizedWithinBounds(VectorScoreInput(fz.vectorResults), fz.normalizedVector)
    /\ NormalizedWithinBounds(KeywordScoreInput(fz.keywordResults), fz.normalizedKeyword)

(* Two equal raw scores in the vector leg, all output as 1, next to a      *)
(* lexical leg of two different ranks.                                     *)
C9_Witness ==
  /\ fz.stage = "normalized"
  /\ Len(fz.vectorResults) = 2
  /\ fz.vectorResults[1].score = fz.vectorResults[2].score
  /\ Len(fz.normalizedVector.results) = 2
  /\ fz.normalizedVector.results[2].normalizedScore = One
  /\ Len(fz.keywordResults) = 2
  /\ Len(fz.normalizedKeyword.results) = 1

----------------------------------------------------------------------------
(* C10: the fused score of a candidate of both legs is its sum of rank     *)
(* contributions times a multiplier in [1, 1.2]; the fused score of a      *)
(* candidate of one leg is that sum itself.                                *)

MaxBoost == Rat(12, 10)

BaseScore(id) ==
  LET m == ScoreMap(fz.vectorResults, fz.keywordResults, fz.params,
                    fz.normalizedVector, fz.normalizedKeyword)
  IN  m[MapIndex(m, id)].rrfScore

InBothLegs(id) ==
  /\ \E i \in 1..Len(fz.vectorResults) : fz.vectorResults[i].changeId = id
  /\ \E i \in 1..Len(fz.keywordResults) : fz.keywordResults[i].changeId = id

C10_OverlapBonusBound ==
  fz.stage = "fused" =>
    \A i \in 1..Len(fz.ranked) :
      LET r == fz.ranked[i]
          base == BaseScore(r.changeId)
      IN  IF InBothLegs(r.changeId)
          THEN RLeq(base, r.rrfScore) /\ RLeq(r.rrfScore, RMul(MaxBoost, base))
          ELSE r.rrfScore = base

(* One candidate of both legs boosted by the full 1.2, one of a single leg *)
(* left alone.                                                             *)
C10_Witness ==
  /\ fz.stage = "fused"
  /\ \E i, j \in 1..Len(fz.ranked) :
       /\ InBothLegs(fz.ranked[i].changeId)
       /\ RLess(Zero, BaseScore(fz.ranked[i].changeId))
       /\ fz.ranked[i].rrfScore = RMul(MaxBoost, BaseScore(fz.ranked[i].changeId))
       /\ ~InBothLegs(fz.ranked[j].changeId)
       /\ RLess(Zero, fz.ranked[j].rrfScore)

----------------------------------------------------------------------------
(* Claims about one search call.                                           *)

Ids(s) == {s[i].changeId : i \in 1..Len(s)}

Settled == srch.pc = "done"

(* C1: a leg that throws is not surfaced by search.  When the embedding    *)
(* provider or the vector store throws, the call resolves with results     *)
(* that come from the lexical leg alone; when the metadata store throws    *)
(* in the lexical leg, with results from the vector leg alone; when both   *)
(* legs throw, with the empty list.  (The call rejects only when the       *)
(* metadata store throws later, during hydration.)                         *)
C1_LegFailureIsolation ==
  (Settled /\ (srch.vecThrew \/ srch.kwThrew)) =>
    /\ srch.outcome = "rejected" => srch.hydrateThrew
    /\ srch.vecThrew =>
         /\ Ids(srch.ranked) = Ids(srch.kwRes)
         /\ \A i \in 1..Len(srch.ranked) :
              srch.ranked[i].vectorRank = 0 /\ ~IsDefined(srch.ranked[i].vectorScore)
         /\ Ids(srch.results) \subseteq Ids(srch.kwRes)
    /\ srch.kwThrew =>
         /\ Ids(srch.ranked) \subseteq Ids(srch.vecRes)
         /\ \A i \in 1..Len(srch.ranked) : srch.ranked[i].keywordRank = 0
         /\ Ids(srch.results) \subseteq Ids(srch.vecRes)
    /\ (srch.vecThrew /\ srch.kwThrew) =>
         srch.outcome = "resolved" /\ srch.results = <<>>

(* The vector leg threw and the call resolved with lexical results.        *)
C1_Witness ==
  /\ Settled
  /\ srch.vecThrew /\ ~srch.kwThrew
  /\ srch.outcome = "resolved"
  /\ Len(srch.results) > 0

C3_RerankFailureKeepsCandidates ==
  (Settled /\ srch.reranking) =>
    /\ Len(srch.finalRanked) = Len(srch.ranked)
    /\ Ids(srch.finalRanked) = Ids(srch.ranked)
    /\ srch.outcome = "rejected" => srch.hydrateThrew

(* A backend failure, and a candidate that was never given to the backend, *)
(* in a call that resolved.                                                *)
C3_Witness ==
  /\ Settled /\ srch.reranking /\ srch.contacted
  /\ srch.failed # {} \/ srch.wholeFailed
  /\ Len(srch.reranked) < Len(srch.ranked)
  /\ srch.outcome = "resolved"

(* C4: when the metadata store throws during hydration the call rejects,   *)
(* returns no results and emits no SEARCH_COMPLETED event.                 *)
C4_HydrationFailurePropagates ==
  (Settled /\ srch.hydrateThrew) =>
    /\ srch.outcome = "rejected"
    /\ srch.results = <<>>
    /\ srch.emitted = 0

(* Hydration threw after both legs had succeeded.                          *)
C4_Witness ==
  /\ Settled /\ srch.hydrateThrew
  /\ ~srch.vecThrew /\ ~srch.kwThrew
  /\ Len(srch.finalRanked) > 0

InFlight == srch.pc \in {"embed", "vstore", "rerank", "cohere"}

(* C5: every search call that has started eventually settles, because each *)
(* external call it waits for is bounded by a timeout.                     *)
C5_EverySearchSettles == InFlight ~> Settled

(* The part of C5 the code does provide: once the embedding is there, the  *)
(* call settles whatever the reranker backend does.                        *)
C5_SettlesAfterEmbedding == (srch.pc \in {"vstore", "rerank", "cohere"}) ~> Settled

(* C6: when the search has a time range, given or taken from the query     *)
(* text, every candidate of the vector leg and of the lexical leg, and so  *)
(* every result, has its timestamp inside the range.                       *)
C6_TimeWindowBothLegs ==
  (srch.pc # "idle" /\ HasRange(srch.enriched.timeRange)) =>
    \A id \in Ids(srch.vecRes) \cup Ids(srch.kwRes) \cup Ids(srch.results) :
      InRange(ChangeTimestamp(id), srch.enriched.timeRange)

(* The part of C6 the code does provide: the vector leg is filtered.       *)
C6_VectorLegInWindow ==
  (srch.pc # "idle" /\ HasRange(srch.enriched.timeRange)) =>
    \A id \in Ids(srch.vecRes) : InRange(ChangeTimestamp(id), srch.enriched.timeRange)

(* C8: the reranker is off until it is configured, and a search enters the *)
(* rerank stage, and so contacts the backend, only when the last           *)
(* setRerankerEnabled call said true and the API key is not empty at that  *)
(* moment; the backend is contacted only inside the rerank stage.          *)
EntersRerankStage ==
  /\ srch.pc \in {"idle", "done", "embed", "vstore"}
  /\ rr' = rr /\ now' = now /\ emb' = emb
  /\ srch'.reranking

SameCall ==
  /\ hist.set /\ Settled
  /\ srch.query = hist.query /\ srch.filters = hist.filters /\ srch.params = hist.params
  /\ srch.reranker = hist.reranker

SameAnswer == srch.outcome = hist.outcome /\ srch.results = hist.results

C7_Idempotent == SameCall => SameAnswer

(* C7 as the code has it: the same holds when the time window does not     *)
(* come from the clock, that is, when the caller gives a time range or the *)
(* query text has no relative time expression.                             *)
WindowFromClock(query, filters) ==
  ~HasRange(filters.timeRange) /\ HasRange(parseTimeExpression(query, Now0))

C7_IdempotentWithFixedWindow ==
  (SameCall /\ ~WindowFromClock(srch.query, srch.filters)) => SameAnswer

(* The query says "today", the caller gave a range, a day went by and the  *)
(* embedding is now cached: the same results come back.                    *)
C7_Witness ==
  /\ SameCall /\ ~WindowFromClock(srch.query, srch.filters)
  /\ HasRange(parseTimeExpression(srch.query, now))
  /\ now # hist.now
  /\ Len(srch.results) > 0
  /\ SameAnswer

----------------------------------------------------------------------------
(* The worked scenario: vector leg [a 0.9, b 0.5], lexical leg [b, c],     *)
(* weights 0.6 / 0.4, k = 60.                                              *)
FusionScenario ==
  /\ fz.vectorResults = << [changeId |-> "a", score |-> Rat(9, 10)],
                           [changeId |-> "b", score |-> Rat(5, 10)] >>
  /\ fz.keywordResults = << [changeId |-> "b", rank |-> 1],
                            [changeId |-> "c", rank |-> 2] >>
  /\ fz.params = DefaultParams

RankedIds == [i \in 1..Len(fz.ranked) |-> fz.ranked[i].changeId]

(* C11: in the worked scenario b is first, ahead of a, and b's fused score *)
(* is its sum of rank contributions times a multiplier greater than 1.     *)
C11_BFirstByOverlapBonus ==
  (FusionScenario /\ fz.stage = "fused") =>
    /\ RankedIds[1] = "b"
    /\ RLess(BaseScore("b"), fz.ranked[1].rrfScore)

(* C11 as the code has it: the order is b, a, c; b is first because it     *)
(* sums 0.6/62 and 0.4/61, which is more than a's 0.6/61; its multiplier   *)
(* is exactly 1, because b has the lowest score of each leg and so a       *)
(* normalized score of 0 in both.                                          *)
C11_BFirstBySum ==
  (FusionScenario /\ fz.stage = "fused") =>
    /\ RankedIds = <<"b", "a", "c">>
    /\ fz.ranked[1].rrfScore = RAdd(Rat(6, 620), Rat(4, 610))
    /\ fz.ranked[1].rrfScore = BaseScore("b")
    /\ fz.ranked[1].normalizedVectorScore = Zero
    /\ fz.ranked[1].normalizedKeywordScore = Zero
    /\ fz.ranked[2].rrfScore = Rat(6, 610)
    /\ fz.ranked[3].rrfScore = Rat(4, 620)

C11_Witness ==
  /\ FusionScenario /\ fz.stage = "fused"
  /\ Len(fz.ranked) = 3
  /\ fz.ranked[1].vectorRank = 2 /\ fz.ranked[1].keywordRank = 1

----------------------------------------------------------------------------
(* The score a candidate is ordered by after the rerank stage.             *)
EffectiveScore(r) == IF IsDefined(r.rerankerScore) THEN r.rerankerScore ELSE r.rrfScore

NonIncreasing(scores) ==
  \A i \in 1..(Len(scores) - 1) : RLeq(scores[i + 1], scores[i])

ResultScores == [i \in 1..Len(srch.results) |-> srch.results[i].score]

FinalEntry(id) ==
  srch.finalRanked[CHOOSE i \in 1..Len(srch.finalRanked) : srch.finalRanked[i].changeId = id]

(* C12: the score of every returned result is the score the list is        *)
(* ordered by, the reranker score where the candidate was reranked and the *)
(* fusion score otherwise, so the returned list is in non-increasing order *)
(* of score with and without reranking.                                    *)
C12_FinalRelevanceScore ==
  (Settled /\ srch.outcome = "resolved") =>
    /\ \A i \in 1..Len(srch.results) :
         srch.results[i].score = EffectiveScore(FinalEntry(srch.results[i].changeId))
    /\ NonIncreasing(ResultScores)

(* The part of C12 the code does provide: without the rerank stage the     *)
(* score is the fusion score and the list is ordered by it.                *)
C12_OrderedWithoutReranking ==
  (Settled /\ srch.outcome = "resolved" /\ ~srch.reranking) =>
    /\ \A i \in 1..Len(srch.results) :
         srch.results[i].score = FinalEntry(srch.results[i].changeId).rrfScore
    /\ NonIncreasing(ResultScores)

----------------------------------------------------------------------------
(* C13: a search that resolves has emitted SEARCH_COMPLETED once, with the *)
(* list it returns, to every subscriber; a search that rejects has emitted *)
(* nothing; a subscriber that throws does not make the search reject and   *)
(* does not keep the later subscribers from being called.                  *)
C13_CompletionNotification ==
  Settled =>
    /\ srch.outcome = "resolved" =>
         /\ srch.emitted = 1
         /\ srch.payload = srch.results
         /\ srch.notified = Listeners
    /\ srch.outcome = "rejected" =>
         /\ srch.emitted = 0 /\ srch.notified = <<>>
         /\ srch.hydrateThrew

(* A search resolved with results, a subscriber threw, and the subscriber  *)
(* registered after it was called.                                         *)
C13_Witness ==
  /\ Settled /\ srch.outcome = "resolved"
  /\ Len(srch.results) > 0
  /\ \E i, j \in 1..Len(srch.notified) :
       i < j /\ ListenerThrows(srch.notified[i]) /\ ~ListenerThrows(srch.notified[j])

----------------------------------------------------------------------------
(* C14: findSimilar rejects with "Change not found" when the change has no *)
(* record and with "No embedding found" when it has no vector, and never   *)
(* resolves then; otherwise it resolves with at most topK results, none of *)
(* them the reference change.                                              *)
Returned(fn) == fz.stage = "returned" /\ fz.fn = fn

HasEmbedding(rows, id) == \E i \in 1..Len(rows) : rows[i].changeId = id

C14_FindSimilar ==
  Returned("findSimilar") =>
    /\ ~HasChange(fz.changeId) =>
         fz.ret.outcome = "rejected" /\ fz.ret.error = "Change not found"
    /\ (HasChange(fz.changeId) /\ ~HasEmbedding(fz.rows, fz.changeId)) =>
         fz.ret.outcome = "rejected" /\ fz.ret.error = "No embedding found"
    /\ (HasChange(fz.changeId) /\ HasEmbedding(fz.rows, fz.changeId)) =>
         /\ fz.ret.outcome = "resolved"
         /\ Len(fz.ret.results) <= fz.topK
         /\ \A i \in 1..Len(fz.ret.results) : fz.ret.results[i].changeId # fz.changeId

(* The reference has two rows among five: both are among the topK + 1     *)
(* nearest and are filtered out, and one other change comes back.          *)
C14_Witness ==
  /\ Returned("findSimilar")
  /\ Len(fz.rows) = 5 /\ fz.changeId = "a" /\ fz.topK = 2
  /\ fz.ret.outcome = "resolved"
  /\ Len(fz.ret.results) = 1

(* C15: for the query "fixed bug in parser.ts yesterday", at any instant,  *)
(* enrichment yields a time range that spans exactly the previous calendar *)
(* day and the file pattern **/parser.ts*.  On the hour axis the last      *)
(* instant of a day is taken to be anywhere in its last hour.              *)

StartOfDay(t) == t - (t % Day)

SpansPreviousDay(range, clock) ==
  /\ range.start = StartOfDay(clock) - Day
  /\ StartOfDay(clock) - Hour <= range.end
  /\ range.end <= StartOfDay(clock)

P_parser ==
  <<"*", "*", "/", "p", "a", "r", "s", "e", "r", ".", "t", "s", "*">>

EnrichedParserQuery ==
  /\ Returned("enrichFilters")
  /\ fz.query = Q_parser
  /\ fz.filters.timeRange = NoRange
  /\ fz.filters.filePatterns = <<>>

C15_PreviousCalendarDay ==
  EnrichedParserQuery =>
    /\ SpansPreviousDay(fz.ret.timeRange, now)
    /\ fz.ret.filePatterns = <<P_parser>>

(* What the code yields: the 24 hours that end 24 hours before the call.   *)
C15_RollingWindow ==
  EnrichedParserQuery =>
    /\ fz.ret.timeRange = [start |-> now - 2 * Day, end |-> now - Day]
    /\ fz.ret.filePatterns = <<P_parser>>

(* C16: for every returned result and every term of the query (as          *)
(* extractQueryTerms gives them: lower-cased, non-word characters replaced *)
(* by separators, longer than two characters) that occurs in the record's  *)
(* file path regardless of case, the highlights contain a filePath entry   *)
(* whose matched terms include that term.                                  *)

InSeq(x, s) == \E i \in 1..Len(s) : s[i] = x

HasPathHighlight(highlights, term) ==
  \E i \in 1..Len(highlights) :
    /\ highlights[i].field = "filePath"
    /\ InSeq(term, highlights[i].matchedTerms)

C16_FilePathHighlight ==
  Returned("generateHighlights") =>
    LET queryTerms == extractQueryTerms(fz.query)
    IN  \A k \in 1..Len(queryTerms) :
          Includes(toLowerCase(fz.change.filePath), queryTerms[k]) =>
            HasPathHighlight(fz.ret, queryTerms[k])

(* The query "Parser bug ts" on src/Parser.ts: the term "parser" matches   *)
(* the path only when case is ignored.                                     *)
C16_Witness ==
  /\ Returned("generateHighlights")
  /\ fz.query = <<"P", "a", "r", "s", "e", "r", " ", "b", "u", "g", " ", "t", "s">>
  /\ fz.change.filePath = <<"s", "r", "c", "/", "P", "a", "r", "s", "e", "r", ".", "t", "s">>
  /\ extractQueryTerms(fz.query) = <<<<"p", "a", "r", "s", "e", "r">>, <<"b", "u", "g">>>>
  /\ HasPathHighlight(fz.ret, <<"p", "a", "r", "s", "e", "r">>)
  /\ ~HasPathHighlight(fz.ret, <<"b", "u", "g">>)

(* C17: the fused score of a candidate before the overlap multiplier is    *)
(* the sum of vectorWeight / (60 + r) over every entry of it in the vector *)
(* ranking (r its 1-based rank) plus the sum of keywordWeight / (60 + r)   *)
(* over every entry of it in the lexical ranking, also when a ranking      *)
(* lists the same change id more than once.                                *)

RECURSIVE LegSum(_, _, _, _)
LegSum(ranking, n, id, weight) ==
  IF n = 0 THEN Zero
  ELSE RAdd(LegSum(ranking, n - 1, id, weight),
            IF ranking[n].changeId = id THEN RrfContribution(weight, n) ELSE Zero)

WeightedRrfSum(id) ==
  RAdd(LegSum(fz.vectorResults, Len(fz.vectorResults), id, fz.params.vectorWeight),
       LegSum(fz.keywordResults, Len(fz.keywordResults), id, fz.params.keywordWeight))

SameRat(x, y) == RLeq(x, y) /\ RLeq(y, x)

FusedIds == { fz.ranked[i].changeId : i \in 1..Len(fz.ranked) }

DistinctIds(ranking) ==
  \A i, j \in 1..Len(ranking) : i # j => ranking[i].changeId # ranking[j].changeId

C17_WeightedRrfSum ==
  fz.stage = "fused" =>
    \A id \in FusedIds : SameRat(BaseScore(id), WeightedRrfSum(id))

(* The sum holds when no change id is listed twice in the vector ranking.  *)
C17_WeightedRrfSumDistinct ==
  (fz.stage = "fused" /\ DistinctIds(fz.vectorResults)) =>
    \A id \in FusedIds : SameRat(BaseScore(id), WeightedRrfSum(id))

(* C18: a candidate whose normalized score in a leg is below that leg's    *)
(* threshold (0.3 vector, 0.1 lexical) receives no fusion contribution     *)
(* from that leg; if it is not present in the other leg it does not appear *)
(* in the fused list.                                                      *)

InLeg(ranking, id) == \E i \in 1..Len(ranking) : ranking[i].changeId = id

(* Listed by the leg, and dropped by normalizeScores' threshold filter.    *)
BelowThreshold(ranking, normalized, id) ==
  /\ InLeg(ranking, id)
  /\ \A i \in 1..Len(normalized.results) : normalized.results[i].id # id

BelowVector(id) == BelowThreshold(fz.vectorResults, fz.normalizedVector, id)
BelowKeyword(id) == BelowThreshold(fz.keywordResults, fz.normalizedKeyword, id)

(* The pre-multiplier score of id when only one leg is fused.              *)
OneLegScore(vectorResults, keywordResults, id) ==
  LET m == ScoreMap(vectorResults, keywordResults, fz.params,
                    fz.normalizedVector, fz.normalizedKeyword)
  IN  IF MapIndex(m, id) = 0 THEN Zero ELSE m[MapIndex(m, id)].rrfScore

C18_ThresholdGate ==
  fz.stage = "fused" =>
    \A id \in FzIds :
      /\ (BelowVector(id) /\ id \in FusedIds) =>
           SameRat(BaseScore(id), OneLegScore(<<>>, fz.keywordResults, id))
      /\ (BelowKeyword(id) /\ id \in FusedIds) =>
           SameRat(BaseScore(id), OneLegScore(fz.vectorResults, <<>>, id))
      /\ (BelowVector(id) /\ ~InLeg(fz.keywordResults, id)) => id \notin FusedIds
      /\ (BelowKeyword(id) /\ ~InLeg(fz.vectorResults, id)) => id \notin FusedIds

(* What the code does: every candidate a leg lists is in the fused list,   *)
(* whatever its normalized score.                                          *)
C18_EveryCandidateFused ==
  fz.stage = "fused" =>
    \A id \in FzIds :
      (InLeg(fz.vectorResults, id) \/ InLeg(fz.keywordResults, id)) <=> id \in FusedIds

----------------------------------------------------------------------------
(* C19: after the rerank stage the candidate list is in non-increasing     *)
(* order of effective score (the reranker score if the reranker scored the *)
(* candidate, its fusion score otherwise), also when only part of the      *)
(* fused list was sent to the reranker.                                    *)

FinalEffectiveScores ==
  [i \in 1..Len(srch.finalRanked) |-> EffectiveScore(srch.finalRanked[i])]

C19_RerankStageOrder ==
  (srch.pc = "done" /\ srch.reranking) => NonIncreasing(FinalEffectiveScores)

----------------------------------------------------------------------------
(* C20: the list reciprocalRankFusion returns is in non-increasing order   *)
(* of fused score, and candidates of equal fused score keep insertion      *)
(* order: vector-leg candidates in vector rank order first, then           *)
(* lexical-only candidates in lexical rank order.                          *)

FirstIndex(ranking, id) ==
  Least({ i \in 1..Len(ranking) : ranking[i].changeId = id })

InsertionOrder(id) ==
  IF InLeg(fz.vectorResults, id) THEN FirstIndex(fz.vectorResults, id)
  ELSE Len(fz.vectorResults) + FirstIndex(fz.keywordResults, id)

FusedScores == [i \in 1..Len(fz.ranked) |-> fz.ranked[i].rrfScore]

C20_FusionOutputOrder ==
  fz.stage = "fused" =>
    /\ NonIncreasing(FusedScores)
    /\ \A i, j \in 1..Len(fz.ranked) :
         (i < j /\ SameRat(fz.ranked[i].rrfScore, fz.ranked[j].rrfScore)) =>
           InsertionOrder(fz.ranked[i].changeId) < InsertionOrder(fz.ranked[j].changeId)

(* Weights 0 / 1: two vector-only candidates tie at 0 behind a lexical one *)
(* that entered the map last.                                              *)
C20_Witness ==
  /\ fz.stage = "fused" /\ Len(fz.ranked) = 3
  /\ fz.ranked[1].vectorRank = 0 /\ fz.ranked[1].keywordRank = 1
  /\ fz.ranked[2].vectorRank = 1 /\ fz.ranked[3].vectorRank = 2
  /\ SameRat(fz.ranked[2].rrfScore, fz.ranked[3].rrfScore)
  /\ RLess(fz.ranked[2].rrfScore, fz.ranked[1].rrfScore)

----------------------------------------------------------------------------
(* C21: for a query with several tokens the lexical leg returns (up to the *)
(* limit) every record whose searchable text has a word starting with at   *)
(* least one query token longer than one character; a record matching only *)
(* one of the tokens is not missed.                                        *)

WordPrefix(text, token) ==
  \E i \in 1..Len(text) :
    HasAt(text, i, token) /\ (i = 1 \/ text[i - 1] \notin WordChars)

TokenOrMatches(query) ==
  { Changes[i].id : i \in { j \in 1..Len(Changes) :
      \E k \in 1..Len(FtsTerms(query)) : WordPrefix(Changes[j].text, FtsTerms(query)[k]) } }

ReturnedIds == { fz.ret[i].changeId : i \in 1..Len(fz.ret) }

SeveralTokens(query) == Len(SplitWs(Trim(query), 1, <<>>)) > 1

C21_TokenOrMatching ==
  (Returned("keywordSearch") /\ ~fz.storeThrows /\ SeveralTokens(fz.query)) =>
    \/ TokenOrMatches(fz.query) \subseteq ReturnedIds
    \/ Len(fz.ret) = fz.topK

(* What the code does: the whole expression is one LIKE pattern, so the    *)
(* records returned are those whose text holds the expression literally.   *)
C21_LiteralExpression ==
  (Returned("keywordSearch") /\ ~fz.storeThrows /\ SeveralTokens(fz.query)) =>
    fz.ret = <<>>

----------------------------------------------------------------------------
(* C22: for every query the expression submitted to the lexical store has  *)
(* no character that is unsafe for the engine's syntax (' " * ( ) ^ -)     *)
(* other than the quotes and prefix markers the sanitizer adds, and no     *)
(* token of length 1 or less, also for queries made only of one-character  *)
(* tokens or only of unsafe characters.                                    *)

(* "token"* with a token of at least two safe characters.                  *)
QuotedToken(p) ==
  /\ Len(p) >= 5
  /\ p[1] = "\"" /\ p[Len(p) - 1] = "\"" /\ p[Len(p)] = "*"
  /\ \A i \in 2..(Len(p) - 2) : p[i] \notin FtsSpecial

SafeExpression(expr) ==
  \/ expr = <<>>
  \/ LET parts == SplitWs(expr, 1, <<>>)
     IN  /\ Len(parts) % 2 = 1
         /\ \A i \in 1..Len(parts) :
              IF i % 2 = 1 THEN QuotedToken(parts[i]) ELSE parts[i] = <<"O", "R">>

C22_SanitizedExpression ==
  Returned("keywordSearch") => SafeExpression(fz.ftsQuery)

(* The expression is safe whenever the query has a token of two or more    *)
(* characters once the unsafe characters are blanked.                      *)
C22_SanitizedWithLongToken ==
  (Returned("keywordSearch") /\ FtsTerms(fz.query) # <<>>) =>
    SafeExpression(fz.ftsQuery)

----------------------------------------------------------------------------
(* C23: within one search both retrievals are started before either is     *)
(* awaited, and normalization and fusion begin only after both legs have   *)
(* settled; the failure of one leg neither cancels the other leg nor lets  *)
(* fusion start before the other leg has finished.                         *)

VectorInFlight == srch.pc \in {"embed", "vstore"}

LegsSettled == srch.pc \notin {"idle", "embed", "vstore"}

(* What each leg gives when it runs to its end.                            *)
KeywordLegOutcome ==
  IF srch.kwThrew THEN <<>>
  ELSE searchChanges(prepareFTSQuery(srch.query), srch.params.rerankTopK)

VectorLegOutcome ==
  IF srch.vecThrew THEN <<>>
  ELSE VectorStoreSearch(srch.query, srch.params.rerankTopK, srch.enriched)

LegIds ==
  { srch.vecRes[i].changeId : i \in 1..Len(srch.vecRes) }
    \cup { srch.kwRes[i].changeId : i \in 1..Len(srch.kwRes) }

FusionNotStarted ==
  /\ srch.ranked = <<>> /\ srch.finalRanked = <<>>
  /\ ~srch.reranking /\ srch.outcome = "none"

C23_BothLegsBeforeFusion ==
  /\ VectorInFlight => (srch.kwRes = KeywordLegOutcome /\ FusionNotStarted)
  /\ LegsSettled =>
       /\ srch.kwRes = KeywordLegOutcome
       /\ srch.vecRes = VectorLegOutcome
       /\ { srch.ranked[i].changeId : i \in 1..Len(srch.ranked) } = LegIds

(* The lexical leg threw while the vector leg was in flight; the vector    *)
(* leg still delivered, and the fused list holds its candidates.           *)
C23_Witness ==
  /\ Settled /\ srch.kwThrew /\ ~srch.vecThrew
  /\ Len(srch.vecRes) > 1
  /\ Len(srch.ranked) = Len(srch.vecRes)

----------------------------------------------------------------------------
(* C24: for any interleaving of concurrent embed calls the cache holds at  *)
(* most 1000 entries wherever control can pass to another call; an         *)
(* insertion that takes it past the cap evicts the oldest-inserted entry;  *)
(* and two concurrent embed calls for the same uncached text may each call *)
(* the provider but leave exactly one cache entry for that text.           *)

EntriesFor(cache, key) == Cardinality({ i \in 1..Len(cache) : cache[i].key = key })

AskedProvider(c) == fz.calls[c].pc = "resolved" /\ fz.calls[c].asked

(* The cache is within the cap and holds one entry for the text of every   *)
(* call that the provider answered.                                        *)
CacheWithinCap ==
  /\ Len(emb.cache) <= CACHE_CAP
  /\ \A c \in Callers : AskedProvider(c) => EntriesFor(emb.cache, fz.calls[c].text) = 1

(* The step is the return of call c, which puts a new key into a cache     *)
(* that is at the cap.                                                     *)
InsertsPastCap(c) ==
  /\ fz.calls[c].pc = "provider" /\ fz'.calls[c].pc = "resolved"
  /\ Len(emb.cache) = CACHE_CAP
  /\ ~CacheHas(emb.cache, fz.calls[c].text)

(* The oldest entry is gone, the others keep their order, the new one is   *)
(* the youngest.                                                           *)
EvictsOldest(c) ==
  /\ Len(emb'.cache) = CACHE_CAP
  /\ SubSeq(emb'.cache, 1, CACHE_CAP - 1) = Tail(emb.cache)
  /\ emb'.cache[CACHE_CAP].key = fz.calls[c].text

(* Every step starts and ends within the cap, and evicts the oldest entry  *)
(* when it inserts past the cap.                                           *)
C24_CacheUnderConcurrency ==
  [][fz.stage = "embedding" =>
       /\ CacheWithinCap
       /\ CacheWithinCap'
       /\ \A c \in Callers : InsertsPastCap(c) => EvictsOldest(c)]_vars

(* Two calls for the same uncached text both asked the provider; the cache *)
(* was full, lost its oldest entry and has one entry for the text.         *)
C24_Witness ==
  /\ fz.stage = "embedding"
  /\ AskedProvider(1) /\ AskedProvider(2)
  /\ fz.calls[1].text = CACHE_CAP + 1 /\ fz.calls[2].text = CACHE_CAP + 1
  /\ Len(emb.cache) = CACHE_CAP
  /\ ~CacheHas(emb.cache, 1)
  /\ EntriesFor(emb.cache, CACHE_CAP + 1) = 1

----------------------------------------------------------------------------
(* C29: after updateConfig switches the provider or model, every later     *)
(* embed(text) or embedQuery(text) returns a vector produced by the        *)
(* currently active provider, never one cached from the provider active    *)
(* before the change.                                                      *)

CacheHit(c) == fz.calls[c].pc = "resolved" /\ ~fz.calls[c].asked

C29_NoStaleVector ==
  fz.stage = "embedding" =>
    \A c \in Callers : CacheHit(c) => fz.calls[c].vector = fz.calls[c].active

----------------------------------------------------------------------------
(* C25: when vectorWeight is 0 (respectively keywordWeight is 0) that leg  *)
(* contributes zero to scoring: the fused score of every candidate is the  *)
(* same as it would be if that leg had returned no results.                *)

ScoreIn(ranked, id) ==
  IF \E i \in 1..Len(ranked) : ranked[i].changeId = id
  THEN ranked[CHOOSE i \in 1..Len(ranked) : ranked[i].changeId = id].rrfScore
  ELSE Zero

(* search, lines 127-143, on the legs given.                               *)
FusionOf(vectorResults, keywordResults) ==
  reciprocalRankFusion(vectorResults, keywordResults, fz.params,
                       normalizeScores(VectorScoreInput(vectorResults), MIN_VECTOR_SCORE),
                       normalizeScores(KeywordScoreInput(keywordResults), MIN_KEYWORD_SCORE))

SameScores(ranked, other) ==
  \A id \in FzIds : SameRat(ScoreIn(ranked, id), ScoreIn(other, id))

C25_ZeroWeight ==
  fz.stage = "fused" =>
    /\ fz.params.vectorWeight = Zero =>
         SameScores(fz.ranked, FusionOf(<<>>, fz.keywordResults))
    /\ fz.params.keywordWeight = Zero =>
         SameScores(fz.ranked, FusionOf(fz.vectorResults, <<>>))

(* The zero-weight leg adds nothing to the sum before the multiplier.      *)
C25_ZeroWeightBaseScore ==
  fz.stage = "fused" =>
    \A id \in FusedIds :
      /\ fz.params.vectorWeight = Zero =>
           SameRat(BaseScore(id), OneLegScore(<<>>, fz.keywordResults, id))
      /\ fz.params.keywordWeight = Zero =>
           SameRat(BaseScore(id), OneLegScore(fz.vectorResults, <<>>, id))

----------------------------------------------------------------------------
(* C26: during one rerank with the per-document backend exactly one        *)
(* request is made per candidate document and a failed request is never    *)
(* retried: the request in flight is always the first one for its          *)
(* document, and every answer, failed or not, ends that document.          *)

FirstRequestInFlight == srch.pc = "rerank" => srch.stage = "first"

AnswerEndsDocument ==
  srch.pc = "rerank" /\ srch' # srch =>
    \/ srch'.pc # "rerank"
    \/ /\ Len(srch'.scores) = Len(srch.scores) + 1
       /\ srch'.stage = "first"

C26_CallDiscipline == [][FirstRequestInFlight /\ AnswerEndsDocument]_vars

(* One request is in flight at a time, for the document after the ones     *)
(* already scored, and a network error or timeout is not retried.          *)
C26_SequentialRequests ==
  srch.pc = "rerank" =>
    /\ Len(srch.scores) < Len(srch.docs)
    /\ srch.stage \in {"first", "alt"}
    /\ \A i \in srch.failed : i <= Len(srch.scores)

----------------------------------------------------------------------------
(* C27: enrichFilters never replaces an explicitly supplied timeRange with *)
(* one extracted from the query; extracted file patterns are appended to   *)
(* (never replace) the supplied filePatterns; every other supplied filter  *)
(* field is passed through unchanged; the caller's filters object is not   *)
(* mutated.                                                                *)

IsPrefix(s, t) == Len(s) <= Len(t) /\ SubSeq(t, 1, Len(s)) = s

EnrichmentMerged(supplied, enriched, query) ==
  /\ HasRange(supplied.timeRange) => enriched.timeRange = supplied.timeRange
  /\ IsPrefix(supplied.filePatterns, enriched.filePatterns)
  /\ SubSeq(enriched.filePatterns, Len(supplied.filePatterns) + 1,
            Len(enriched.filePatterns)) = extractFilePatterns(query)
  /\ enriched.languages = supplied.languages

C27_EnrichmentMerge ==
  [][fz.stage = "called" /\ fz.fn = "enrichFilters" /\ fz'.stage = "returned" =>
       /\ fz'.filters = fz.filters
       /\ EnrichmentMerged(fz.filters, fz'.ret, fz.query)]_vars

(* A query with a time expression and a file name, called with a range,    *)
(* a pattern and a language filter of the caller's own.                    *)
C27_Witness ==
  /\ Returned("enrichFilters")
  /\ fz.query = Q_parser
  /\ HasRange(parseTimeExpression(fz.query, now))
  /\ fz.filters = [timeRange |-> [start |-> 0, end |-> Now0],
                   filePatterns |-> <<P_md>>, languages |-> <<"typescript">>]
  /\ fz.ret = [timeRange |-> [start |-> 0, end |-> Now0],
               filePatterns |-> <<P_md, P_parser>>, languages |-> <<"typescript">>]

----------------------------------------------------------------------------
(* C28: within one search, a candidate ranked first in both the vector leg *)
(* and the lexical leg receives an overlap multiplier at least as large as *)
(* that of any other candidate of both legs.  The vector leg is taken as   *)
(* the store returns it: nearest first, one row per change.                *)

Multiplier(id) ==
  LET m == ScoreMap(fz.vectorResults, fz.keywordResults, fz.params,
                    fz.normalizedVector, fz.normalizedKeyword)
  IN  OverlapBoost(m[MapIndex(m, id)])

NearestFirst(vectorResults) ==
  /\ \A i \in 1..Len(vectorResults) - 1 :
       RLeq(vectorResults[i + 1].score, vectorResults[i].score)
  /\ \A i, j \in 1..Len(vectorResults) :
       i # j => vectorResults[i].changeId # vectorResults[j].changeId

FirstInBothLegs(id) ==
  /\ Len(fz.vectorResults) > 0 /\ fz.vectorResults[1].changeId = id
  /\ Len(fz.keywordResults) > 0 /\ fz.keywordResults[1].changeId = id

C28_OverlapRewardsAgreement ==
  fz.stage = "fused" /\ NearestFirst(fz.vectorResults) =>
    \A id, other \in FusedIds :
      FirstInBothLegs(id) /\ InBothLegs(other) =>
        RLeq(Multiplier(other), Multiplier(id))

(* What the code yields: the lexical leg is normalized on its rank numbers *)
(* (score: r.rank), so the first of two or more lexical results has the    *)
(* normalized score 0 and is never boosted.                                *)
C28_FirstLexicalNotBoosted ==
  fz.stage = "fused" /\ Len(fz.keywordResults) > 1 =>
    SameRat(Multiplier(fz.keywordResults[1].changeId), One)

----------------------------------------------------------------------------
(* C30: at most one processChanges run is active at any time; a call made  *)
(* while a run is active returns without embedding or storing anything;    *)
(* the in-progress flag is cleared when a run ends, whether it completed   *)
(* or threw, so a later call is not locked out.                            *)

ActiveRuns == {c \in Runners : Active(fz.runs[c])}

AtMostOneActive == Cardinality(ActiveRuns) <= 1

FlagFollowsRuns == emb.isProcessing <=> ActiveRuns # {}

Called(c) == fz.runs[c].pc = "idle" /\ fz'.runs[c].pc # "idle"

CallIsSkipped(c) ==
  /\ fz'.runs[c].pc = "skipped"
  /\ fz' = [fz EXCEPT !.runs[c] = fz'.runs[c]]
  /\ emb' = emb

C30_BatchMutualExclusion ==
  [][fz.stage = "batch" =>
       /\ AtMostOneActive /\ AtMostOneActive'
       /\ FlagFollowsRuns /\ FlagFollowsRuns'
       /\ \A c \in Runners :
            Called(c) => IF ActiveRuns # {} THEN CallIsSkipped(c)
                         ELSE fz'.runs[c].pc # "skipped"]_vars

(* A run threw, a call made during it was skipped, and a later call runs   *)
(* and has stored a batch.                                                 *)
C30_Witness ==
  /\ fz.stage = "batch"
  /\ \E a, b, c \in Runners :
       /\ fz.runs[a].pc = "threw"
       /\ fz.runs[b].pc = "skipped"
       /\ Active(fz.runs[c]) /\ fz.runs[c].batch = 2
       /\ fz.stored > 0
  /\ emb.isProcessing

====
